---- MODULE Spec2Model ----
(***************************************************************************)
(* A model of the staged execution engine of claude-orchestrator:          *)
(*   - RateLimitManager (src/advanced.py), under SpecRL, and its           *)
(*     handle_rate_limit_response under SpecSeq (one caller) and SpecHR    *)
(*     (several threads, statement by statement);                          *)
(*   - CodeReviewManager.conduct_code_review (src/advanced.py), under      *)
(*     SpecCR;                                                             *)
(*   - OrchestratorState and MilestoneOrchestrator (src/orchestrator.py),  *)
(*     under Spec.                                                         *)
(* Time is counted in whole seconds.  Identifiers of milestones and tasks  *)
(* are sequences of one-character strings, so that str.startswith is a     *)
(* prefix test on sequences.                                               *)
(***************************************************************************)
EXTENDS Integers, Sequences, FiniteSets, TLC

VARIABLES
    \* ---- RateLimitManager (src/advanced.py) ----
    rl_cfg,            \* [rpm, burst]: requests_per_minute, burst_limit
    clock,             \* time.time()
    request_times,     \* self.request_times (a list)
    burst_count,       \* self.burst_count
    last_reset,        \* self.last_reset
    consecutive_429s,  \* self.consecutive_429s
    adjustment_factor, \* self.adjustment_factor, a rational [n, d]
    rl_lock,           \* self.lock: 0 when free, else the holding thread
    rl_pc,             \* per thread: position inside wait_if_needed
    rl_now,            \* per thread: the local `now`
    rl_wait,           \* per thread: the local `wait_time`
    rl_seen,           \* per thread: what the limit check read (history)
    rl_log,            \* history: every admission, with the factor its check read
    rl_resp,           \* number of handle_rate_limit_response calls so far
    \* ---- the run: configuration, process and disk ----
    scn,               \* which scenario (milestone files and configuration)
    run,               \* number of the orchestrator process (1 = first run)
    run_pc,            \* position of the main thread in execute_milestones
    stage_pos,         \* index of the loop over sorted(stages.keys())
    run_result,        \* return value of execute_milestones
    state_file,        \* orchestrator_state.json on disk: <<>> or <<contents>>
    wt_dirs,           \* milestone ids whose worktree directory is on disk
    active_worktrees,  \* WorktreeManager.active_worktrees (per process)
    \* ---- OrchestratorState.state ----
    current_stage,
    completed_tasks,
    failed_tasks,
    skipped_tasks,
    stage_results,
    worktree_paths,
    \* ---- milestone runners (execute_milestone) ----
    m_pc,              \* per milestone: position of its runner
    m_grp,             \* per milestone: task group being run (1 high, 2 other)
    m_results,         \* per milestone: task ids in `results`
    m_res,             \* per milestone: returned result
    \* ---- task threads (execute_single_task) ----
    t_pc,              \* per task: position of its thread
    t_attempt,         \* per task: the loop variable `attempt`
    t_admits,          \* per task: wait_if_needed admissions taken (history)
    t_calls,           \* per task: Execution-backend calls made (history)
    t_delays,          \* per task: the time.sleep calls between attempts (history)
    t_result,          \* per task: returned TaskResult
    \* ---- the process and the repository around it ----
    shutdown_requested, \* self.shutdown_requested
    stage_got,         \* once shutdown is requested: the milestones whose
                       \* result execute_stage took before it saw the flag
    cwd,               \* os.getcwd(): <<>> is the base checkout, else the
                       \* worktree of the milestone with this id
    t_cwd0,            \* per task: the local `original_cwd` of execute_task
    t_ran_in,          \* per task: directories its backend calls ran in (history)
    work,              \* per task: where its changes are: a subset of
                       \* {"worktree", "branch", "base"} (on disk, outlives the process)
    \* ---- history of the run ----
    resume_stage,      \* current_stage as loaded when the run started
    started,           \* the stage numbers execute_stage was called with
    entry_stage,       \* current_stage when the last execute_stage was called
    stage_log,         \* outcome of each step of the last execute_stage
    rv_calls,          \* conduct_code_review calls, each starting with a backend call
    \* ---- CodeReviewManager.conduct_code_review (src/advanced.py) ----
    cr_cfg,            \* [max_iterations, quality_threshold, auto_fix]
    cr_pc,             \* position inside conduct_code_review
    iteration,         \* the loop variable `iteration`
    review_result,     \* the local `review_result` of the current iteration
    final_result,      \* the returned result
    iterations_completed,
    cr_log,            \* history: the backend calls made, in order
    \* ---- handle_rate_limit_response, statement by statement ----
    rl_status,         \* history: status_code of the last call (0: none yet)
    hr_pc,             \* per thread: position inside handle_rate_limit_response
    hr_status,         \* per thread: the argument status_code
    hr_tmp             \* per thread: the attribute value the statement loaded

rlVars == <<rl_cfg, clock, request_times, burst_count, last_reset,
            consecutive_429s, adjustment_factor, rl_lock, rl_pc, rl_now,
            rl_wait, rl_seen, rl_log, rl_resp>>

runVars == <<scn, run, run_pc, stage_pos, run_result, state_file, wt_dirs,
             active_worktrees>>

stateVars == <<current_stage, completed_tasks, failed_tasks, skipped_tasks,
               stage_results, worktree_paths>>

mVars == <<m_pc, m_grp, m_results, m_res>>

tVars == <<t_pc, t_attempt, t_admits, t_calls, t_delays, t_result>>

envVars == <<shutdown_requested, stage_got, cwd, t_cwd0, t_ran_in, work>>

histVars == <<resume_stage, started, entry_stage, stage_log, rv_calls>>

orchVars == <<runVars, stateVars, mVars, tVars, envVars, histVars>>

crVars == <<cr_cfg, cr_pc, iteration, review_result, final_result,
            iterations_completed, cr_log>>

hrVars == <<rl_status, hr_pc, hr_status, hr_tmp>>

vars == <<rlVars, orchVars, crVars, hrVars>>

----------------------------------------------------------------------------
(* Bounds of the model *)

MaxTime == 65
MaxAdmissions == 3
MaxResponses == 2
MaxRetries == 3
MaxRuns == 2
MaxIterations == 3
MaxSequence == 12
MaxHandled == 2

(* Program constants *)

Window == 60
QualityIssueScore == 80

----------------------------------------------------------------------------
(* Generic helpers *)

Max(a, b) == IF a >= b THEN a ELSE b

RECURSIVE SelectSeqGT(_, _)
\* [t for t in s if t > cutoff]
SelectSeqGT(s, cutoff) ==
    IF s = <<>> THEN <<>>
    ELSE IF Head(s) > cutoff
         THEN <<Head(s)>> \o SelectSeqGT(Tail(s), cutoff)
         ELSE SelectSeqGT(Tail(s), cutoff)

RECURSIVE SeqMin(_)
\* min(s) of a non-empty list
SeqMin(s) ==
    IF Len(s) = 1 THEN s[1]
    ELSE LET m == SeqMin(Tail(s)) IN IF s[1] <= m THEN s[1] ELSE m

RECURSIVE GCD(_, _)
GCD(a, b) == IF b = 0 THEN a ELSE GCD(b, a % b)

\* a rational in lowest terms
Rat(n, d) == LET g == GCD(n, d) IN [n |-> n \div g, d |-> d \div g]

RatLess(f, g) == f.n * g.d < g.n * f.d

----------------------------------------------------------------------------
(* RateLimitManager *)

Threads == {1, 2}
Deltas == {30, 31}
RpmChoices == {1, 2}
BurstChoices == {1, 2}
RetryAfterChoices == {0, 30}

\* int(self.requests_per_minute * self.adjustment_factor)
EffectiveLimit(rpm, f) == (rpm * f.n) \div f.d

\* the reduction without its floor
ReduceUnbounded(f) == Rat(f.n * 4, f.d * 5)

\* max(0.1, self.adjustment_factor * 0.8)
Reduce(f) ==
    LET g == Rat(f.n * 4, f.d * 5)
    IN IF RatLess(g, Rat(1, 10)) THEN Rat(1, 10) ELSE g

\* min(1.0, self.adjustment_factor * 1.1)
Restore(f) ==
    LET g == Rat(f.n * 11, f.d * 10)
    IN IF RatLess(Rat(1, 1), g) THEN Rat(1, 1) ELSE g

\* a lock that excludes nobody
LockFreeNoExclusion == TRUE

\* `with self.lock:` lets a caller in only while no other thread holds the lock
LockFree == rl_lock = 0

NoSeen == [times |-> <<>>, burst |-> 0, factor |-> Rat(1, 1)]

\* time passes
Tick(d) ==
    /\ clock + d <= MaxTime
    /\ clock' = clock + d
    /\ UNCHANGED <<rl_cfg, request_times, burst_count, last_reset,
                   consecutive_429s, adjustment_factor, rl_lock, rl_pc,
                   rl_now, rl_wait, rl_seen, rl_log, rl_resp>>
    /\ UNCHANGED orchVars
    /\ UNCHANGED <<crVars, hrVars>>

\* a thread calls wait_if_needed and reaches `with self.lock:`
RLCall(t) ==
    /\ rl_pc[t] = "idle"
    /\ hr_pc[t] = "idle"
    /\ Len(rl_log) + Cardinality({u \in Threads : rl_pc[u] # "idle"}) < MaxAdmissions
    /\ rl_pc' = [rl_pc EXCEPT ![t] = "acquiring"]
    /\ UNCHANGED <<rl_cfg, clock, request_times, burst_count, last_reset,
                   consecutive_429s, adjustment_factor, rl_lock, rl_now,
                   rl_wait, rl_seen, rl_log, rl_resp>>
    /\ UNCHANGED orchVars
    /\ UNCHANGED <<crVars, hrVars>>

\* wait_if_needed, from taking the lock to the computation of wait_time
RLEnter(t) ==
    /\ rl_pc[t] = "acquiring"
    /\ LockFree
    /\ LET now     == clock
           reset   == now - last_reset > Window
           bc      == IF reset THEN 0 ELSE burst_count
           lr      == IF reset THEN now ELSE last_reset
           times   == SelectSeqGT(request_times, now - Window)
           w1      == IF bc >= rl_cfg.burst
                      THEN Max(0, Window - (now - lr)) ELSE 0
           limit   == EffectiveLimit(rl_cfg.rpm, adjustment_factor)
           over    == Len(times) >= limit
           raises  == over /\ times = <<>>   \* min() of an empty list
           w2      == IF over /\ ~raises
                      THEN Max(w1, Window - (now - SeqMin(times))) ELSE w1
       IN /\ burst_count' = bc
          /\ last_reset' = lr
          /\ request_times' = times
          /\ IF raises
             THEN \* ValueError leaves the with-block: the lock is released
                  /\ rl_lock' = 0
                  /\ rl_pc' = [rl_pc EXCEPT ![t] = "idle"]
                  /\ rl_now' = [rl_now EXCEPT ![t] = 0]
                  /\ UNCHANGED <<rl_wait, rl_seen>>
             ELSE /\ rl_lock' = t
                  /\ rl_now' = [rl_now EXCEPT ![t] = now]
                  /\ rl_wait' = [rl_wait EXCEPT ![t] = w2]
                  /\ rl_seen' = [rl_seen EXCEPT
                                   ![t] = [times |-> times, burst |-> bc,
                                           factor |-> adjustment_factor]]
                  /\ rl_pc' = [rl_pc EXCEPT
                                 ![t] = IF w2 > 0 THEN "sleep" ELSE "record"]
    /\ UNCHANGED <<rl_cfg, clock, consecutive_429s, adjustment_factor,
                   rl_log, rl_resp>>
    /\ UNCHANGED orchVars
    /\ UNCHANGED <<crVars, hrVars>>

\* time.sleep(wait_time); now = time.time()
RLSleep(t) ==
    /\ rl_pc[t] = "sleep"
    /\ \E slack \in {0, 1} :
          /\ clock' = clock + rl_wait[t] + slack
          /\ rl_now' = [rl_now EXCEPT ![t] = clock']
    /\ rl_pc' = [rl_pc EXCEPT ![t] = "record"]
    /\ UNCHANGED <<rl_cfg, request_times, burst_count, last_reset,
                   consecutive_429s, adjustment_factor, rl_lock, rl_wait,
                   rl_seen, rl_log, rl_resp>>
    /\ UNCHANGED orchVars
    /\ UNCHANGED <<crVars, hrVars>>

\* record the request, return wait_time and release the lock
RLRecord(t) ==
    /\ rl_pc[t] = "record"
    /\ request_times' = Append(request_times, rl_now[t])
    /\ burst_count' = burst_count + 1
    /\ rl_log' = Append(rl_log, [at |-> rl_now[t],
                                 rpm |-> rl_cfg.rpm,
                                 factor |-> rl_seen[t].factor])
    /\ rl_lock' = IF rl_lock = t THEN 0 ELSE rl_lock
    /\ rl_pc' = [rl_pc EXCEPT ![t] = "idle"]
    \* the locals die with the call
    /\ rl_now' = [rl_now EXCEPT ![t] = 0]
    /\ rl_wait' = [rl_wait EXCEPT ![t] = 0]
    /\ rl_seen' = [rl_seen EXCEPT ![t] = NoSeen]
    /\ UNCHANGED <<rl_cfg, clock, last_reset, consecutive_429s,
                   adjustment_factor, rl_resp>>
    /\ UNCHANGED orchVars
    /\ UNCHANGED <<crVars, hrVars>>

\* handle_rate_limit_response(status_code, headers) run without another
\* thread in between; retry_after = 0 stands for a response without a
\* retry-after header
Handled(status, retry_after) ==
    /\ rl_resp' = rl_resp + 1
    /\ rl_status' = status
    /\ IF status = 429
       THEN /\ consecutive_429s' = consecutive_429s + 1
            /\ adjustment_factor' = Reduce(adjustment_factor)
            /\ clock + retry_after <= MaxTime
            /\ clock' = clock + retry_after
       ELSE /\ IF consecutive_429s > 0
               THEN /\ consecutive_429s' = Max(0, consecutive_429s - 1)
                    /\ adjustment_factor' = Restore(adjustment_factor)
               ELSE UNCHANGED <<consecutive_429s, adjustment_factor>>
            /\ UNCHANGED clock
    /\ UNCHANGED <<rl_cfg, request_times, burst_count, last_reset, rl_lock,
                   rl_pc, rl_now, rl_wait, rl_seen, rl_log>>
    /\ UNCHANGED orchVars
    /\ UNCHANGED <<crVars, hr_pc, hr_status, hr_tmp>>

\* a response handled between the calls of wait_if_needed
HandleResponse(status, retry_after) ==
    /\ rl_resp < MaxResponses
    /\ Handled(status, retry_after)

\* one response after the other, handled by a single caller
HandleInSequence(status, retry_after) ==
    /\ rl_resp < MaxSequence
    /\ Handled(status, retry_after)

----------------------------------------------------------------------------
(* handle_rate_limit_response called by several threads: each statement   *)
(* that updates an attribute loads it and stores it in two steps          *)

HRFrame ==
    /\ UNCHANGED <<rl_cfg, clock, request_times, burst_count, last_reset,
                   rl_lock, rl_pc, rl_now, rl_wait, rl_seen, rl_log>>
    /\ UNCHANGED <<orchVars, crVars>>

\* the method has no `with self.lock:`: a thread enters it whatever the
\* lock and the other threads do
HRCall(t, status) ==
    /\ hr_pc[t] = "idle"
    /\ rl_pc[t] = "idle"
    /\ rl_resp + Cardinality({u \in Threads : hr_pc[u] # "idle"}) < MaxHandled
    /\ hr_status' = [hr_status EXCEPT ![t] = status]
    /\ hr_pc' = [hr_pc EXCEPT
                   ![t] = IF status = 429 THEN "count_load" ELSE "test"]
    /\ UNCHANGED <<consecutive_429s, adjustment_factor, rl_resp, rl_status,
                   hr_tmp>>
    /\ HRFrame

\* if self.consecutive_429s > 0:
HRTest(t) ==
    /\ hr_pc[t] = "test"
    /\ IF consecutive_429s > 0
       THEN /\ hr_pc' = [hr_pc EXCEPT ![t] = "count_load"]
            /\ UNCHANGED <<rl_resp, rl_status>>
       ELSE /\ hr_pc' = [hr_pc EXCEPT ![t] = "idle"]
            /\ rl_resp' = rl_resp + 1
            /\ rl_status' = hr_status[t]
    /\ UNCHANGED <<consecutive_429s, adjustment_factor, hr_status, hr_tmp>>
    /\ HRFrame

\* the load of self.consecutive_429s in `+= 1` or in max(0, ... - 1)
HRLoadCount(t) ==
    /\ hr_pc[t] = "count_load"
    /\ hr_tmp' = [hr_tmp EXCEPT ![t] = consecutive_429s]
    /\ hr_pc' = [hr_pc EXCEPT ![t] = "count_store"]
    /\ UNCHANGED <<consecutive_429s, adjustment_factor, rl_resp, rl_status,
                   hr_status>>
    /\ HRFrame

\* the store of self.consecutive_429s
HRStoreCount(t) ==
    /\ hr_pc[t] = "count_store"
    /\ consecutive_429s' = IF hr_status[t] = 429 THEN hr_tmp[t] + 1
                           ELSE Max(0, hr_tmp[t] - 1)
    /\ hr_pc' = [hr_pc EXCEPT ![t] = "factor_load"]
    /\ UNCHANGED <<adjustment_factor, rl_resp, rl_status, hr_status, hr_tmp>>
    /\ HRFrame

\* the load of self.adjustment_factor in max(0.1, ... * 0.8) or min(1.0, ... * 1.1)
HRLoadFactor(t) ==
    /\ hr_pc[t] = "factor_load"
    /\ hr_tmp' = [hr_tmp EXCEPT ![t] = adjustment_factor]
    /\ hr_pc' = [hr_pc EXCEPT ![t] = "factor_store"]
    /\ UNCHANGED <<consecutive_429s, adjustment_factor, rl_resp, rl_status,
                   hr_status>>
    /\ HRFrame

\* the store of self.adjustment_factor; the method returns (a response
\* without a retry-after header)
HRStoreFactor(t) ==
    /\ hr_pc[t] = "factor_store"
    /\ adjustment_factor' = IF hr_status[t] = 429 THEN Reduce(hr_tmp[t])
                            ELSE Restore(hr_tmp[t])
    /\ hr_pc' = [hr_pc EXCEPT ![t] = "idle"]
    /\ hr_tmp' = [hr_tmp EXCEPT ![t] = 0]
    /\ rl_resp' = rl_resp + 1
    /\ rl_status' = hr_status[t]
    /\ UNCHANGED <<consecutive_429s, hr_status>>
    /\ HRFrame

----------------------------------------------------------------------------
(* CodeReviewManager: quality scores are counted in hundredths *)

MaxIterationChoices == 0..MaxIterations
ThresholdChoices == {70, 80}
AutoFixChoices == BOOLEAN
ScoreChoices == {70, 80, 90}

\* what _parse_review_results finds in the output of the Review backend
ReviewOutputs ==
    [quality_score : ScoreChoices, todos_found : SUBSET {"todo"},
     quality_gates_failed : SUBSET {"gate"}]

\* the answers of the backend to a review task: result.success with its
\* output, result.success false, or an exception
ReviewResponses ==
    {[status |-> "ok", output |-> o] : o \in ReviewOutputs}
        \cup {[status |-> st, output |-> <<>>] : st \in {"failed", "exception"}}

\* the answers of the backend to an auto-fix task
FixResponses == {"fixed", "failed", "exception"}

CodeReviewResult(success, score, todos, gates, iterations) ==
    [success |-> success, quality_score |-> score, todos_found |-> todos,
     quality_gates_failed |-> gates, iterations_completed |-> iterations]

\* CodeReviewResult.has_quality_issues
HasQualityIssues(r) ==
    \/ r.todos_found # {}
    \/ r.quality_gates_failed # {}
    \/ r.quality_score < QualityIssueScore

\* _parse_review_results
ParseReviewResults(out, threshold) ==
    CodeReviewResult(out.quality_score >= threshold
                        /\ out.quality_gates_failed = {},
                     out.quality_score, out.todos_found,
                     out.quality_gates_failed, 0)

\* _perform_single_review
PerformSingleReview(resp, threshold) ==
    IF resp.status = "failed"
    THEN CodeReviewResult(FALSE, 0, {}, {"Code review execution failed"}, 0)
    ELSE IF resp.status = "exception"
    THEN CodeReviewResult(FALSE, 0, {}, {"Exception during review"}, 0)
    ELSE ParseReviewResults(resp.output, threshold)

\* the result built when the loop ran out without a final_result
MaximumIterationsExceeded(iterations) ==
    CodeReviewResult(FALSE, 0, {"Review process failed"},
                     {"Maximum iterations exceeded"}, iterations)

\* final_result.iterations_completed = iterations_completed; return
Returns(r, iterations) ==
    /\ final_result' = <<[r EXCEPT !.iterations_completed = iterations]>>
    /\ cr_pc' = "returned"

\* one pass of the for loop up to the auto-fix: _perform_single_review and
\* the three tests on its result
CRReview(resp) ==
    /\ cr_pc = "loop"
    /\ iteration < cr_cfg.max_iterations
    /\ iterations_completed' = iteration + 1
    /\ cr_log' = Append(cr_log, "review")
    /\ LET r == PerformSingleReview(resp, cr_cfg.quality_threshold)
       IN /\ review_result' = <<r>>
          /\ IF ~r.success
             THEN \* return review_result
                  /\ final_result' = <<r>>
                  /\ cr_pc' = "returned"
             ELSE IF ~HasQualityIssues(r)
             THEN Returns(r, iteration + 1)
             ELSE IF cr_cfg.auto_fix
             THEN /\ cr_pc' = "fix"
                  /\ UNCHANGED final_result
             ELSE Returns(r, iteration + 1)
    /\ UNCHANGED <<cr_cfg, iteration>>
    /\ UNCHANGED <<rlVars, orchVars, hrVars>>

\* _attempt_auto_fix: the corrective call, and the next pass when it succeeded
CRFix(resp) ==
    /\ cr_pc = "fix"
    /\ cr_log' = Append(cr_log, IF resp = "fixed" THEN "fix" ELSE "fix_failed")
    /\ IF resp = "fixed"
       THEN /\ iteration' = iteration + 1
            /\ cr_pc' = "loop"
            /\ UNCHANGED final_result
       ELSE /\ Returns(review_result[1], iterations_completed)
            /\ UNCHANGED iteration
    /\ UNCHANGED <<cr_cfg, review_result, iterations_completed>>
    /\ UNCHANGED <<rlVars, orchVars, hrVars>>

\* the for loop is over and final_result is None
CRExhausted ==
    /\ cr_pc = "loop"
    /\ iteration >= cr_cfg.max_iterations
    /\ Returns(MaximumIterationsExceeded(iterations_completed),
               iterations_completed)
    /\ UNCHANGED <<cr_cfg, iteration, review_result, iterations_completed,
                   cr_log>>
    /\ UNCHANGED <<rlVars, orchVars, hrVars>>

----------------------------------------------------------------------------
(* Milestones, tasks and configuration *)

\* str.startswith
StartsWith(s, p) == Len(p) <= Len(s) /\ SubSeq(s, 1, Len(p)) = p

\* f"{milestone_id}-T{task_num}"
TaskIdNumbered(mid, num) == mid \o <<"-", "T", num>>

\* f"{milestone_id}_claude_execution"
TaskIdSingle(mid) ==
    mid \o <<"_", "c", "l", "a", "u", "d", "e", "_",
             "e", "x", "e", "c", "u", "t", "i", "o", "n">>

Task(id, priority) == [id |-> id, priority |-> priority]

Milestone(id, stage, deps, tasks) ==
    [id |-> id, stage |-> stage, dependencies |-> deps, tasks |-> tasks]

\* One "Task 1" section of medium priority
OneTask(mid) == <<Task(TaskIdNumbered(mid, "1"), "medium")>>

\* how the head of an attempt can raise before the backend is called
Faults == {"limiter_raises"}

\* Scenario 1: milestone files 1a, 1a-x, 1b, 1c, 1d and 2a (which depends on
\* 1a and 1b); one worker, no retry, nothing raises, worktrees on a git that
\* does not fail, code review disabled.
Scenario1 ==
    [ms |-> << Milestone(<<"1", "a">>, 1, <<>>, OneTask(<<"1", "a">>)),
               Milestone(<<"1", "a", "-", "x">>, 1, <<>>,
                         OneTask(<<"1", "a", "-", "x">>)),
               Milestone(<<"1", "b">>, 1, <<>>, OneTask(<<"1", "b">>)),
               Milestone(<<"1", "c">>, 1, <<>>, OneTask(<<"1", "c">>)),
               Milestone(<<"1", "d">>, 1, <<>>, OneTask(<<"1", "d">>)),
               Milestone(<<"2", "a">>, 2, << <<"1", "a">>, <<"1", "b">> >>,
                         OneTask(<<"2", "a">>)) >>,
     max_workers |-> 1, max_retries |-> 0, retry_delay |-> 30, faults |-> {},
     use_worktrees |-> TRUE, git_ok |-> TRUE, git_bad |-> {}, review |-> FALSE,
     signals |-> FALSE, raises |-> {}]

\* Scenario 2: milestone file 1a with a high and a medium task; retries, an
\* attempt may raise, worktrees on a git that may fail, code review enabled.
Scenario2(retries) ==
    [ms |-> << Milestone(<<"1", "a">>, 1, <<>>,
                         << Task(TaskIdNumbered(<<"1", "a">>, "1"), "high"),
                            Task(TaskIdNumbered(<<"1", "a">>, "2"), "medium") >>) >>,
     max_workers |-> 2, max_retries |-> retries, retry_delay |-> 30,
     faults |-> Faults,
     use_worktrees |-> TRUE, git_ok |-> FALSE, git_bad |-> {1}, review |-> TRUE,
     signals |-> FALSE, raises |-> {}]

\* Scenario 3: the packaged parser (one task per milestone, named
\* <id>_claude_execution): milestone files 1a and 2a, 2a depends on 1a.
Scenario3 ==
    [ms |-> << Milestone(<<"1", "a">>, 1, <<>>,
                         <<Task(TaskIdSingle(<<"1", "a">>), "high")>>),
               Milestone(<<"2", "a">>, 2, << <<"1", "a">> >>,
                         <<Task(TaskIdSingle(<<"2", "a">>), "high")>>) >>,
     max_workers |-> 2, max_retries |-> 1, retry_delay |-> 30, faults |-> {},
     use_worktrees |-> FALSE, git_ok |-> TRUE, git_bad |-> {}, review |-> FALSE,
     signals |-> FALSE, raises |-> {}]

\* Scenario 4: milestone files 1a (two medium tasks, run together) and 1b
\* (depends on 1a, same stage); two workers, no retry, code review enabled.
Scenario4 ==
    [ms |-> << Milestone(<<"1", "a">>, 1, <<>>,
                         << Task(TaskIdNumbered(<<"1", "a">>, "1"), "medium"),
                            Task(TaskIdNumbered(<<"1", "a">>, "2"), "medium") >>),
               Milestone(<<"1", "b">>, 1, << <<"1", "a">> >>,
                         OneTask(<<"1", "b">>)) >>,
     max_workers |-> 2, max_retries |-> 0, retry_delay |-> 30, faults |-> {},
     use_worktrees |-> TRUE, git_ok |-> TRUE, git_bad |-> {}, review |-> TRUE,
     signals |-> FALSE, raises |-> {}]

\* Scenario 5: milestone files 1a (two medium tasks) and 1b, both of stage 1,
\* run by one worker; SIGINT or SIGTERM may arrive while the run goes on.
Scenario5 ==
    [ms |-> << Milestone(<<"1", "a">>, 1, <<>>,
                         << Task(TaskIdNumbered(<<"1", "a">>, "1"), "medium"),
                            Task(TaskIdNumbered(<<"1", "a">>, "2"), "medium") >>),
               Milestone(<<"1", "b">>, 1, <<>>, OneTask(<<"1", "b">>)) >>,
     max_workers |-> 1, max_retries |-> 0, retry_delay |-> 30, faults |-> {},
     use_worktrees |-> FALSE, git_ok |-> TRUE, git_bad |-> {}, review |-> FALSE,
     signals |-> TRUE, raises |-> {}]

\* Scenario 6: one milestone file 1a with five high-priority tasks and one
\* medium one; one worker, no retry, no worktrees, code review disabled.
Scenario6 ==
    [ms |-> << Milestone(<<"1", "a">>, 1, <<>>,
                         << Task(TaskIdNumbered(<<"1", "a">>, "1"), "high"),
                            Task(TaskIdNumbered(<<"1", "a">>, "2"), "high"),
                            Task(TaskIdNumbered(<<"1", "a">>, "3"), "high"),
                            Task(TaskIdNumbered(<<"1", "a">>, "4"), "high"),
                            Task(TaskIdNumbered(<<"1", "a">>, "5"), "high"),
                            Task(TaskIdNumbered(<<"1", "a">>, "6"), "medium") >>) >>,
     max_workers |-> 1, max_retries |-> 0, retry_delay |-> 30, faults |-> {},
     use_worktrees |-> FALSE, git_ok |-> TRUE, git_bad |-> {}, review |-> FALSE,
     signals |-> FALSE, raises |-> {}]

\* Scenario 7: milestone files 1a (one task) and 1b, 1c, 1d, 1e (no task
\* section that any extraction method recognises: no tasks), all of stage 1;
\* one worker, worktrees on a git whose commands can fail for 1a, code
\* review enabled, and the prints of the runners of 1a and 1b can raise.
Scenario7 ==
    [ms |-> << Milestone(<<"1", "a">>, 1, <<>>, OneTask(<<"1", "a">>)),
               Milestone(<<"1", "b">>, 1, <<>>, <<>>),
               Milestone(<<"1", "c">>, 1, <<>>, <<>>),
               Milestone(<<"1", "d">>, 1, <<>>, <<>>),
               Milestone(<<"1", "e">>, 1, <<>>, <<>>) >>,
     max_workers |-> 1, max_retries |-> 0, retry_delay |-> 30, faults |-> {},
     use_worktrees |-> TRUE, git_ok |-> FALSE, git_bad |-> {1},
     review |-> TRUE, signals |-> FALSE, raises |-> {1, 2}]

Scenarios ==
    <<Scenario1, Scenario2(MaxRetries), Scenario3, Scenario4, Scenario5,
      Scenario6, Scenario7>>

Cfg == Scenarios[scn]
Ms == Cfg.ms
MIdx == 1..Len(Ms)

SeqRange(q) == {q[k] : k \in 1..Len(q)}

TaskIdsOf(i) == {Ms[i].tasks[k].id : k \in 1..Len(Ms[i].tasks)}
AllTaskIds == UNION {TaskIdsOf(i) : i \in MIdx}
Owner(t) == CHOOSE i \in MIdx : t \in TaskIdsOf(i)

RECURSIVE SortedSeq(_)
\* sorted(S)
SortedSeq(S) ==
    IF S = {} THEN <<>>
    ELSE LET m == CHOOSE x \in S : \A y \in S : x <= y
         IN <<m>> \o SortedSeq(S \ {m})

\* organize_execution_stages: the stage numbers, ascending, and each stage's
\* milestones
StageSeq == SortedSeq({Ms[i].stage : i \in MIdx})
StageMs(st) == {i \in MIdx : Ms[i].stage = st}

IsHigh(task) == task.priority = "high"
IsOther(task) == task.priority # "high"

\* execute_milestone: [high_priority_tasks, other_tasks]
Groups(i) == <<SelectSeq(Ms[i].tasks, IsHigh), SelectSeq(Ms[i].tasks, IsOther)>>
GroupIds(i, g) == {Groups(i)[g][k].id : k \in 1..Len(Groups(i)[g])}
HighIds(i) == GroupIds(i, 1)

\* the first non-empty group numbered g or more, 0 when there is none
NextGroup(i, g) ==
    IF g <= 2 /\ Groups(i)[g] # <<>> THEN g
    ELSE IF g < 2 /\ Groups(i)[2] # <<>> THEN 2
    ELSE 0

RECURSIVE Pow2(_)
Pow2(k) == IF k = 0 THEN 1 ELSE 2 * Pow2(k - 1)

\* a delay that grows by retry_delay per attempt instead of doubling
BackoffLinear(retry_delay, attempt) == retry_delay * (attempt + 1)

\* retry_delay * (2 ** attempt)
Backoff(retry_delay, attempt) == retry_delay * Pow2(attempt)

\* a success rate that must exceed 80%
StageSuccessStrict(successful, total) ==
    IF total = 0 THEN TRUE ELSE 5 * successful > 4 * total

\* success_rate = successful / len(milestones) if milestones else 1.0;
\* success_rate >= 0.8
StageSuccess(successful, total) ==
    IF total = 0 THEN TRUE ELSE 5 * successful >= 4 * total

\* validate_milestone_dependencies
ValidateDependencies(deps, completed) ==
    \A k \in 1..Len(deps) :
        \E t \in completed : StartsWith(t, deps[k] \o <<"-">>)

\* validate_milestone_completion with MilestoneValidator.validate_milestone:
\* results is the set of task ids that have a result, ok those that succeeded
MilestoneValid(i, results, ok) ==
    /\ results # {}
    /\ ~(5 * Cardinality(ok) < 4 * Cardinality(results))
    /\ TaskIdsOf(i) \subseteq results

\* a merge gate that wants more than 80%
MergeSuccessAbove(merged, total) == 5 * merged > 4 * total

\* merge_success = successful_merges >= len(milestones) * 0.8
MergeSuccess(merged, total) == 5 * merged >= 4 * total

\* CodeReviewResult as execute_milestone and execute_stage read it
ReviewVerdicts == [success : BOOLEAN, has_quality_issues : BOOLEAN]
ReviewFails(v) == ~v.success /\ v.has_quality_issues

\* json.dump / json.load of stage_results: every key becomes a string, and of
\* two entries with the same text the one inserted last (the int key) stays
JsonStageResults(sr) ==
    {[key |-> <<"str", e.key[2]>>, total |-> e.total,
      successful |-> e.successful] :
        e \in {x \in sr : x.key[1] = "int"
                          \/ ~\E y \in sr : y.key = <<"int", x.key[2]>>}}

RECURSIVE ListOf(_)
\* list(S), in some order
ListOf(S) ==
    IF S = {} THEN <<>>
    ELSE LET x == CHOOSE x \in S : TRUE IN <<x>> \o ListOf(S \ {x})

\* save_state: the record written to the state file (sets as lists)
SavedState ==
    [current_stage |-> current_stage,
     completed_tasks |-> ListOf(completed_tasks),
     failed_tasks |-> ListOf(failed_tasks),
     skipped_tasks |-> ListOf(skipped_tasks),
     stage_results |-> JsonStageResults(stage_results),
     worktree_paths |-> worktree_paths,
     complete |-> TRUE]

\* the file when the process ends between open(self.state_file, 'w'), which
\* empties it, and the end of json.dump
CutFile ==
    [current_stage |-> 0, completed_tasks |-> <<>>, failed_tasks |-> <<>>,
     skipped_tasks |-> <<>>, stage_results |-> {}, worktree_paths |-> {},
     complete |-> FALSE]

\* what save_state leaves on disk: the file is written in place, and once
\* the force_exit thread is running os._exit can end the process in the
\* middle of the write
Written(data) ==
    {<<data>>} \cup (IF shutdown_requested THEN {<<CutFile>>} ELSE {})

\* load_state: the state after OrchestratorState.__init__ (a file that
\* json.load cannot read is logged and the defaults stay)
LoadedState(file) ==
    IF file = <<>> \/ ~file[1].complete
    THEN [current_stage |-> 0, completed_tasks |-> {}, failed_tasks |-> {},
          skipped_tasks |-> {}, stage_results |-> {}, worktree_paths |-> {}]
    ELSE [current_stage |-> file[1].current_stage,
          completed_tasks |-> SeqRange(file[1].completed_tasks),
          failed_tasks |-> SeqRange(file[1].failed_tasks),
          skipped_tasks |-> SeqRange(file[1].skipped_tasks),
          stage_results |-> file[1].stage_results,
          worktree_paths |-> file[1].worktree_paths]

----------------------------------------------------------------------------
(* execute_milestones and execute_stage: the main thread *)

CurStage == StageSeq[stage_pos]

\* the milestones for which a git command can return an error
Flaky == IF Cfg.git_ok THEN {} ELSE Cfg.git_bad

\* the ways in which git commands may fail for the milestones in ms
GitFailures(ms) == SUBSET (ms \cap Flaky)

\* a loop over the milestones that stops at the first one that fails
AttemptedUntilFailure(ms, fails) == {i \in ms : \A j \in fails : i <= j}

\* the milestones that the loops of prepare_stage_worktrees and
\* merge_stage_worktrees get to: a failure is logged and the loop goes on
Attempted(ms, fails) == ms

\* milestone runners that hold a worker of the stage's pool
MRunning == {i \in MIdx : m_pc[i] \in {"tasks", "review", "commit"}}

\* no step of execute_stage has been taken yet
NoStageLog ==
    [gate |-> "none", merge |-> "none", review |-> "none", commit |-> "none",
     prepared |-> {}, merge_tried |-> {}, merged |-> {}]

\* a stage loop without the resume test
BelowCursorIgnored(stage_num) == FALSE

\* a cursor test that lets the stage just below the cursor run again
BelowCursorByTwo(stage_num) == stage_num + 1 < current_stage

\* stage_num < self.state.state["current_stage"]
BelowCursor(stage_num) == stage_num < current_stage

\* `continue` for a stage below the persisted cursor
SkipStage ==
    /\ run_pc = "loop"
    /\ stage_pos <= Len(StageSeq)
    /\ ~shutdown_requested
    /\ BelowCursor(CurStage)
    /\ stage_pos' = stage_pos + 1
    /\ UNCHANGED <<scn, run, run_pc, run_result, state_file, wt_dirs,
                   active_worktrees>>
    /\ UNCHANGED <<stateVars, mVars, tVars, rlVars>>
    /\ UNCHANGED <<envVars, histVars>>
    /\ UNCHANGED <<crVars, hrVars>>

\* the work of the tasks of the milestones in ms leaves the places in gone
Forget(ms, gone) ==
    [t \in AllTaskIds |-> IF Owner(t) \in ms THEN work[t] \ gone ELSE work[t]]

\* execute_stage up to the submission of the milestone runners:
\* prepare_stage_worktrees (created = the milestones whose create_worktree
\* did not raise), then executor.submit for every milestone
BeginStage ==
    /\ run_pc = "loop"
    /\ stage_pos <= Len(StageSeq)
    /\ ~shutdown_requested
    /\ ~BelowCursor(CurStage)
    /\ started' = Append(started, CurStage)
    /\ entry_stage' = current_stage
    /\ \E fails \in GitFailures(StageMs(CurStage)) :
          LET tried   == IF Cfg.use_worktrees
                         THEN Attempted(StageMs(CurStage), fails) ELSE {}
              created == tried \ fails
              ids     == {Ms[i].id : i \in created}
          IN /\ stage_log' = [NoStageLog EXCEPT !.prepared = tried]
             /\ worktree_paths' = worktree_paths \cup ids
             /\ active_worktrees' = active_worktrees \cup ids
             /\ wt_dirs' = wt_dirs \cup ids
             /\ work' = Forget(created, {"worktree", "branch"})
    /\ m_pc' = [i \in MIdx |->
                  IF i \in StageMs(CurStage) THEN "queued" ELSE m_pc[i]]
    /\ run_pc' = "running"
    /\ UNCHANGED <<scn, run, stage_pos, run_result, state_file>>
    /\ UNCHANGED <<current_stage, completed_tasks, failed_tasks,
                   skipped_tasks, stage_results>>
    /\ UNCHANGED <<m_grp, m_results, m_res, tVars, rlVars>>
    /\ UNCHANGED <<shutdown_requested, stage_got, cwd, t_cwd0, t_ran_in, resume_stage,
                   rv_calls>>
    /\ UNCHANGED <<crVars, hrVars>>

\* a failed stage after which the stage loop goes on
HaltRunGoesOn == run_pc' = "loop" /\ run_result' = FALSE

\* execute_stage returns False and execute_milestones returns False at once
HaltRun == run_pc' = "cleanup" /\ run_result' = FALSE

\* the milestones whose result is in the list stage_results of execute_stage
\* when its collecting loop ends: all of the stage, or those taken before
\* the shutdown flag was seen
StageTaken ==
    IF shutdown_requested THEN stage_got \cap StageMs(CurStage)
    ELSE StageMs(CurStage)

\* a pool that is left without waiting once shutdown is requested
RunnersOverOrShutdown ==
    \/ shutdown_requested
    \/ \A i \in StageMs(CurStage) : m_pc[i] \in {"done", "cancelled"}

\* the end of the `with ThreadPoolExecutor` block of execute_stage: it waits
\* until every runner has returned or was cancelled before it started
RunnersOver ==
    \A i \in StageMs(CurStage) : m_pc[i] \in {"done", "cancelled"}

\* execute_stage once every runner has returned or was cancelled: the stage
\* result is stored
\* and the success rate decides whether the stage goes on
StageGate ==
    /\ run_pc = "running"
    /\ RunnersOver
    /\ LET total      == Cardinality(StageMs(CurStage))
           successful == Cardinality({i \in StageTaken :
                                         m_res[i] = "success"})
       IN /\ stage_results' =
                {e \in stage_results : e.key # <<"int", CurStage>>}
                \cup {[key |-> <<"int", CurStage>>, total |-> total,
                       successful |-> successful]}
          /\ IF ~StageSuccess(successful, total)
             THEN /\ HaltRun
                  /\ stage_log' = [stage_log EXCEPT !.gate = "failed"]
             ELSE /\ run_pc' = IF Cfg.use_worktrees THEN "merge"
                               ELSE IF Cfg.review THEN "review"
                               ELSE "commit"
                  /\ stage_log' = [stage_log EXCEPT !.gate = "ok"]
                  /\ UNCHANGED run_result
    /\ UNCHANGED <<scn, run, stage_pos, state_file, wt_dirs,
                   active_worktrees>>
    /\ UNCHANGED <<current_stage, completed_tasks, failed_tasks,
                   skipped_tasks, worktree_paths>>
    /\ UNCHANGED <<mVars, tVars, rlVars>>
    /\ UNCHANGED <<envVars, resume_stage, started, entry_stage, rv_calls>>
    /\ UNCHANGED <<crVars, hrVars>>

\* merge_stage_worktrees: able = the milestones with a worktree path and a
\* worktree record, merged = those of them whose checkout and merge both
\* returned 0
MergeStage ==
    /\ run_pc = "merge"
    /\ LET able == {i \in StageMs(CurStage) :
                       /\ Ms[i].id \in worktree_paths
                       /\ Ms[i].id \in active_worktrees}
       IN \E fails \in GitFailures(able) :
          LET tried  == Attempted(able, fails)
              merged == tried \ fails
              log    == [stage_log EXCEPT !.merge_tried = tried,
                                          !.merged = merged]
          IN /\ work' = [t \in AllTaskIds |->
                            IF Owner(t) \in merged /\ "branch" \in work[t]
                            THEN work[t] \cup {"base"} ELSE work[t]]
             /\ IF MergeSuccess(Cardinality(merged),
                                Cardinality(StageMs(CurStage)))
                THEN /\ run_pc' = IF Cfg.review THEN "review" ELSE "commit"
                     /\ stage_log' = [log EXCEPT !.merge = "ok"]
                     /\ UNCHANGED run_result
                ELSE /\ HaltRun
                     /\ stage_log' = [log EXCEPT !.merge = "failed"]
    /\ UNCHANGED <<scn, run, stage_pos, state_file, wt_dirs,
                   active_worktrees>>
    /\ UNCHANGED <<stateVars, mVars, tVars, rlVars>>
    /\ UNCHANGED <<shutdown_requested, stage_got, cwd, t_cwd0, t_ran_in, resume_stage,
                   started, entry_stage, rv_calls>>
    /\ UNCHANGED <<crVars, hrVars>>

\* conduct_stage_code_review and the test of its result
StageReview(v) ==
    /\ run_pc = "review"
    /\ rv_calls' = rv_calls + 1
    /\ IF ReviewFails(v)
       THEN /\ HaltRun
            /\ stage_log' = [stage_log EXCEPT !.review = "failed"]
       ELSE /\ run_pc' = "commit"
            /\ stage_log' = [stage_log EXCEPT !.review = "ok"]
            /\ UNCHANGED run_result
    /\ UNCHANGED <<scn, run, stage_pos, state_file, wt_dirs,
                   active_worktrees>>
    /\ UNCHANGED <<stateVars, mVars, tVars, rlVars>>
    /\ UNCHANGED <<envVars, resume_stage, started, entry_stage>>
    /\ UNCHANGED <<crVars, hrVars>>

\* commit_stage_completion (a failure is only logged), the return of
\* execute_stage, and the advance of the cursor with save_state; committed
\* is what commit_stage_completion returns
CommitStage(committed) ==
    /\ run_pc = "commit"
    /\ Cfg.git_ok => committed
    /\ stage_log' = [stage_log EXCEPT
                       !.commit = IF committed THEN "ok" ELSE "failed"]
    /\ current_stage' = CurStage + 1
    /\ state_file' \in Written([SavedState EXCEPT !.current_stage = CurStage + 1])
    /\ stage_pos' = stage_pos + 1
    /\ run_pc' = IF state_file'[1].complete THEN "loop" ELSE "returned"
    /\ UNCHANGED <<scn, run, run_result, wt_dirs, active_worktrees>>
    /\ UNCHANGED <<completed_tasks, failed_tasks, skipped_tasks,
                   stage_results, worktree_paths>>
    /\ UNCHANGED <<mVars, tVars, rlVars>>
    /\ UNCHANGED <<envVars, resume_stage, started, entry_stage, rv_calls>>
    /\ UNCHANGED <<crVars, hrVars>>

\* the loop is over: generate_final_report and `return True`
FinishRun ==
    /\ run_pc = "loop"
    /\ stage_pos > Len(StageSeq) \/ shutdown_requested
    /\ run_pc' = "cleanup"
    /\ run_result' = TRUE
    /\ UNCHANGED <<scn, run, stage_pos, state_file, wt_dirs,
                   active_worktrees>>
    /\ UNCHANGED <<stateVars, mVars, tVars, rlVars>>
    /\ UNCHANGED <<envVars, histVars>>
    /\ UNCHANGED <<crVars, hrVars>>

\* cleanup (the finally clause): cleanup_worktree for every recorded path
\* (removed = the directories `git worktree remove` removed, which also
\* drops their records; kept = the directories that rmtree did not remove
\* either), then save_state
Cleanup ==
    /\ run_pc = "cleanup"
    /\ LET there == wt_dirs \cap worktree_paths
           bad   == {Ms[i].id : i \in Flaky}
       IN \E removed \in (IF ~Cfg.use_worktrees THEN {{}}
                          ELSE {there \ f : f \in SUBSET (there \cap bad)}) :
          \E kept \in (IF ~Cfg.use_worktrees THEN {there}
                       ELSE SUBSET (there \ removed)) :
             /\ wt_dirs' = (wt_dirs \ there) \cup kept
             /\ active_worktrees' = active_worktrees \ removed
             /\ work' = Forget({i \in MIdx : Ms[i].id \in there \ kept},
                               {"worktree"})
    /\ state_file' \in Written(SavedState)
    /\ run_pc' = "returned"
    /\ UNCHANGED <<scn, run, stage_pos, run_result>>
    /\ UNCHANGED <<stateVars, mVars, tVars, rlVars>>
    /\ UNCHANGED <<shutdown_requested, stage_got, cwd, t_cwd0, t_ran_in, histVars>>
    /\ UNCHANGED <<crVars, hrVars>>

----------------------------------------------------------------------------
(* execute_milestone: one runner per milestone of the stage *)

\* executor.submit for every task of group g of milestone i
SubmitGroup(i, g) ==
    t_pc' = [t \in AllTaskIds |->
               IF t \in GroupIds(i, g) THEN "queued" ELSE t_pc[t]]

\* the end of execute_milestone once milestone_success is known
Finish(i, success) ==
    /\ m_res' = [m_res EXCEPT ![i] = IF success THEN "success" ELSE "failed"]
    /\ m_pc' = [m_pc EXCEPT ![i] = "done"]

\* a runner starts (the pool runs the submitted runners in order, at most
\* max_workers at a time): dependency check, then the first task group; with
\* the shutdown flag set every group is passed over and no result validated
MilestoneStart(i) ==
    /\ run_pc = "running"
    /\ m_pc[i] = "queued"
    /\ Cardinality(MRunning) < Cfg.max_workers
    /\ \A j \in MIdx : j < i => m_pc[j] # "queued"
    /\ IF ~ValidateDependencies(Ms[i].dependencies, completed_tasks)
       THEN /\ m_res' = [m_res EXCEPT ![i] = "deps_not_met"]
            /\ m_pc' = [m_pc EXCEPT ![i] = "done"]
            /\ UNCHANGED <<m_grp, t_pc>>
       ELSE IF Ms[i].tasks = <<>>
       THEN /\ Finish(i, TRUE)
            /\ UNCHANGED <<m_grp, t_pc>>
       ELSE IF shutdown_requested
       THEN /\ Finish(i, FALSE)
            /\ UNCHANGED <<m_grp, t_pc>>
       ELSE /\ m_pc' = [m_pc EXCEPT ![i] = "tasks"]
            /\ m_grp' = [m_grp EXCEPT ![i] = NextGroup(i, 1)]
            /\ SubmitGroup(i, NextGroup(i, 1))
            /\ UNCHANGED m_res
    /\ UNCHANGED <<m_results, t_attempt, t_admits, t_calls, t_delays,
                   t_result>>
    /\ UNCHANGED <<runVars, stateVars, rlVars>>
    /\ UNCHANGED <<envVars, histVars>>
    /\ UNCHANGED <<crVars, hrVars>>

\* a loop over the groups that goes on after a failed high-priority task
CriticalFailuresUnseen(i, taken) == FALSE

\* critical_failures is not empty: a result of the group is a failure of a
\* high-priority task
CriticalFailures(i, taken) ==
    \E t \in taken : t_result[t] = "failure" /\ t \in HighIds(i)

\* execute_task_group has returned for the current group: the results are
\* kept (with the shutdown flag set, those taken before it was seen), a
\* failed high-priority task ends the loop, else the next group starts
\* unless shutdown is requested; after the loop the milestone is validated
GroupDone(i) ==
    /\ run_pc = "running"
    /\ m_pc[i] = "tasks"
    /\ \A t \in GroupIds(i, m_grp[i]) : t_pc[t] \in {"done", "cancelled"}
    /\ LET taken    == IF shutdown_requested
                       THEN m_results[i] \cap GroupIds(i, m_grp[i])
                       ELSE GroupIds(i, m_grp[i])
           results  == m_results[i] \cup taken
           critical == CriticalFailures(i, taken)
           ng       == IF critical \/ shutdown_requested THEN 0
                       ELSE NextGroup(i, m_grp[i] + 1)
           ok       == {t \in results : t_result[t] # "failure"}
           valid    == MilestoneValid(i, results, ok)
       IN /\ m_results' = [m_results EXCEPT ![i] = results]
          /\ IF ng # 0
             THEN /\ m_grp' = [m_grp EXCEPT ![i] = ng]
                  /\ SubmitGroup(i, ng)
                  /\ UNCHANGED <<m_pc, m_res>>
             ELSE /\ UNCHANGED <<m_grp, t_pc>>
                  /\ IF valid /\ Cfg.review
                     THEN m_pc' = [m_pc EXCEPT ![i] = "review"]
                          /\ UNCHANGED m_res
                     ELSE IF valid /\ Cfg.use_worktrees
                     THEN m_pc' = [m_pc EXCEPT ![i] = "commit"]
                          /\ UNCHANGED m_res
                     ELSE Finish(i, valid)
    /\ UNCHANGED <<t_attempt, t_admits, t_calls, t_delays, t_result>>
    /\ UNCHANGED <<runVars, stateVars, rlVars>>
    /\ UNCHANGED <<envVars, histVars>>
    /\ UNCHANGED <<crVars, hrVars>>

\* an exception that leaves execute_milestone and execute_stage and ends
\* the run
Propagates == run_pc' = "cleanup" /\ run_result' = FALSE

\* the exception stays in the runner: the main thread goes on collecting
Caught == run_pc' = run_pc /\ run_result' = run_result

\* a statement of the runner raises (a print of the title on a console that
\* cannot encode it: before the try clause when the runner starts, inside it
\* before the review or the commit): the except clause of execute_milestone,
\* or the one around future.result() in execute_stage, makes a failed
\* result with the error text
MilestoneRaises(i) ==
    /\ i \in Cfg.raises
    /\ run_pc = "running"
    /\ \/ /\ m_pc[i] = "queued"
          /\ Cardinality(MRunning) < Cfg.max_workers
          /\ \A j \in MIdx : j < i => m_pc[j] # "queued"
       \/ m_pc[i] \in {"review", "commit"}
    /\ m_res' = [m_res EXCEPT ![i] = "exception"]
    /\ m_pc' = [m_pc EXCEPT ![i] = "done"]
    /\ Caught
    /\ UNCHANGED <<m_grp, m_results, tVars>>
    /\ UNCHANGED <<scn, run, stage_pos, state_file, wt_dirs,
                   active_worktrees>>
    /\ UNCHANGED <<stateVars, rlVars>>
    /\ UNCHANGED <<envVars, histVars>>
    /\ UNCHANGED <<crVars, hrVars>>

\* conduct_milestone_code_review and the test of its result
MilestoneReview(i, v) ==
    /\ run_pc = "running"
    /\ m_pc[i] = "review"
    /\ rv_calls' = rv_calls + 1
    /\ IF ReviewFails(v) THEN Finish(i, FALSE)
       ELSE IF Cfg.use_worktrees
       THEN m_pc' = [m_pc EXCEPT ![i] = "commit"] /\ UNCHANGED m_res
       ELSE Finish(i, TRUE)
    /\ UNCHANGED <<m_grp, m_results, tVars>>
    /\ UNCHANGED <<runVars, stateVars, rlVars>>
    /\ UNCHANGED <<envVars, resume_stage, started, entry_stage, stage_log>>
    /\ UNCHANGED <<crVars, hrVars>>

\* commit_milestone_worktree (committed is what it returns; its outcome is
\* only logged): chdir to the worktree, git add and git commit, chdir back
MilestoneCommit(i, committed) ==
    /\ run_pc = "running"
    /\ m_pc[i] = "commit"
    /\ i \notin Flaky => committed
    /\ committed => Ms[i].id \in worktree_paths
    /\ work' = [t \in AllTaskIds |->
                  IF /\ committed /\ Owner(t) = i /\ Ms[i].id \in wt_dirs
                     /\ "worktree" \in work[t]
                  THEN work[t] \cup {"branch"} ELSE work[t]]
    /\ Finish(i, TRUE)
    /\ UNCHANGED <<m_grp, m_results, tVars>>
    /\ UNCHANGED <<runVars, stateVars, rlVars>>
    /\ UNCHANGED <<shutdown_requested, stage_got, cwd, t_cwd0, t_ran_in, histVars>>
    /\ UNCHANGED <<crVars, hrVars>>

----------------------------------------------------------------------------
(* execute_single_task: one thread per task of the running group *)

\* task threads of t's group that hold a worker of the group's pool
TRunning(t) ==
    {u \in GroupIds(Owner(t), m_grp[Owner(t)]) :
        t_pc[u] \in {"attempt", "enter", "call"}}

PoolSize(t) ==
    LET n == Cardinality(GroupIds(Owner(t), m_grp[Owner(t)]))
    IN IF n <= Cfg.max_workers THEN n ELSE Cfg.max_workers

\* a task that is run again although it is recorded as completed
AlreadyCompletedIgnored(t) == FALSE

\* task_id in self.state.state["completed_tasks"]
AlreadyCompleted(t) == t \in completed_tasks

\* a failed attempt that marks the task as failed before the retries are used
FailAttemptMarksEarly(t, cause) ==
    /\ failed_tasks' = failed_tasks \cup {t}
    /\ IF t_attempt[t] < Cfg.max_retries
       THEN /\ t_delays' = [t_delays EXCEPT ![t] =
                              Append(@, [after |-> t_attempt[t],
                                         secs |-> Backoff(Cfg.retry_delay,
                                                          t_attempt[t]),
                                         cause |-> cause])]
            /\ t_attempt' = [t_attempt EXCEPT ![t] = @ + 1]
            /\ t_pc' = [t_pc EXCEPT ![t] = "attempt"]
            /\ UNCHANGED t_result
       ELSE /\ t_result' = [t_result EXCEPT ![t] = "failure"]
            /\ t_pc' = [t_pc EXCEPT ![t] = "done"]
            /\ UNCHANGED <<t_delays, t_attempt>>

\* a failed attempt: sleep and go round the loop again, or leave the loop,
\* add the task to failed_tasks and return the failure
FailAttempt(t, cause) ==
    IF t_attempt[t] < Cfg.max_retries
    THEN /\ t_delays' = [t_delays EXCEPT ![t] =
                           Append(@, [after |-> t_attempt[t],
                                      secs |-> Backoff(Cfg.retry_delay,
                                                       t_attempt[t]),
                                      cause |-> cause])]
         /\ t_attempt' = [t_attempt EXCEPT ![t] = @ + 1]
         /\ t_pc' = [t_pc EXCEPT ![t] = "attempt"]
         /\ UNCHANGED <<failed_tasks, t_result>>
    ELSE /\ failed_tasks' = failed_tasks \cup {t}
         /\ t_result' = [t_result EXCEPT ![t] = "failure"]
         /\ t_pc' = [t_pc EXCEPT ![t] = "done"]
         /\ UNCHANGED <<t_delays, t_attempt>>

\* the head of one loop iteration: the completed check, then
\* wait_if_needed; how is "admitted" when it returns and "limiter_raises"
\* when it raises
TaskAttempt(t, how) ==
    /\ run_pc = "running"
    /\ t_pc[t] \in {"queued", "attempt"}
    /\ how \in {"admitted"} \cup Cfg.faults
    /\ t_pc[t] = "queued" =>
          /\ Cardinality(TRunning(t)) < PoolSize(t)
    /\ IF AlreadyCompleted(t)
       THEN /\ how = "admitted"
            /\ t_result' = [t_result EXCEPT ![t] = "skipped"]
            /\ t_pc' = [t_pc EXCEPT ![t] = "done"]
            /\ UNCHANGED <<t_attempt, t_admits, t_delays, failed_tasks>>
       ELSE /\ t_admits' = [t_admits EXCEPT
                              ![t] = IF how = "limiter_raises" THEN @ ELSE @ + 1]
            /\ IF how = "admitted"
               THEN /\ t_pc' = [t_pc EXCEPT ![t] = "enter"]
                    /\ UNCHANGED <<t_attempt, t_delays, t_result, failed_tasks>>
               ELSE FailAttempt(t, "exception")
    /\ UNCHANGED <<t_calls, mVars, runVars, rlVars>>
    /\ UNCHANGED <<current_stage, completed_tasks, skipped_tasks,
                   stage_results, worktree_paths>>
    /\ UNCHANGED <<envVars, histVars>>
    /\ UNCHANGED <<crVars, hrVars>>

\* worktree_path as execute_single_task passes it: the milestone has an
\* entry in worktree_paths
HasWorktreePath(t) == Ms[Owner(t)].id \in worktree_paths

\* the head of claude_wrapper.execute_task: original_cwd = os.getcwd() and,
\* when the worktree path is given and exists, os.chdir to it
TaskEnter(t) ==
    /\ run_pc = "running"
    /\ t_pc[t] = "enter"
    /\ t_cwd0' = [t_cwd0 EXCEPT ![t] = cwd]
    /\ cwd' = IF HasWorktreePath(t) /\ Ms[Owner(t)].id \in wt_dirs
              THEN Ms[Owner(t)].id ELSE cwd
    /\ t_pc' = [t_pc EXCEPT ![t] = "call"]
    /\ UNCHANGED <<t_attempt, t_admits, t_calls, t_delays, t_result>>
    /\ UNCHANGED <<runVars, stateVars, mVars, rlVars>>
    /\ UNCHANGED <<shutdown_requested, stage_got, t_ran_in, work, histVars>>
    /\ UNCHANGED <<crVars, hrVars>>

\* where a change made in directory dir by a task of milestone i ends up
Place(dir, i) ==
    IF dir = <<>> THEN "base"
    ELSE IF dir = Ms[i].id THEN "worktree" ELSE "other"

\* the rest of claude_wrapper.execute_task: the backend runs in the current
\* directory of the process and returns (success is result.success), the
\* finally clause goes back to original_cwd when a worktree path was given
TaskCall(t, success) ==
    /\ run_pc = "running"
    /\ t_pc[t] = "call"
    /\ t_calls' = [t_calls EXCEPT ![t] = @ + 1]
    /\ t_ran_in' = [t_ran_in EXCEPT ![t] = @ \cup {cwd}]
    /\ work' = IF success
               THEN [work EXCEPT ![t] = @ \cup {Place(cwd, Owner(t))}]
               ELSE work
    /\ cwd' = IF HasWorktreePath(t) THEN t_cwd0[t] ELSE cwd
    /\ IF success
       THEN /\ completed_tasks' = completed_tasks \cup {t}
            /\ t_result' = [t_result EXCEPT ![t] = "success"]
            /\ t_pc' = [t_pc EXCEPT ![t] = "done"]
            /\ UNCHANGED <<t_attempt, t_delays, failed_tasks>>
       ELSE /\ FailAttempt(t, "failure")
            /\ UNCHANGED completed_tasks
    /\ UNCHANGED <<t_admits, mVars, runVars, rlVars>>
    /\ UNCHANGED <<current_stage, skipped_tasks, stage_results,
                   worktree_paths>>
    /\ UNCHANGED <<shutdown_requested, stage_got, t_cwd0, histVars>>
    /\ UNCHANGED <<crVars, hrVars>>

----------------------------------------------------------------------------
(* A later run: a new process on the same directory *)

----------------------------------------------------------------------------
(* SIGINT and SIGTERM *)

\* the task results the collecting loops of execute_task_group hold
DoneTasks ==
    {t \in AllTaskIds : /\ m_pc[Owner(t)] = "tasks"
                        /\ t \in GroupIds(Owner(t), m_grp[Owner(t)])
                        /\ t_pc[t] = "done"}

\* the milestone results the collecting loop of execute_stage holds
DoneMilestones ==
    IF run_pc = "running"
    THEN {i \in StageMs(CurStage) : m_pc[i] = "done"} ELSE {}

\* signal_handler: the flag is set. The collecting loops of execute_stage
\* and execute_task_group take no result once they see the flag: what they
\* hold is what they took before (any part of the finished futures)
Signal ==
    /\ Cfg.signals
    /\ ~shutdown_requested
    /\ run_pc # "returned"
    /\ shutdown_requested' = TRUE
    /\ \E ms \in SUBSET DoneMilestones : stage_got' = ms
    /\ \E ts \in SUBSET DoneTasks :
          m_results' = [i \in MIdx |->
                           m_results[i] \cup {t \in ts : Owner(t) = i}]
    /\ UNCHANGED <<m_pc, m_grp, m_res, tVars>>
    /\ UNCHANGED <<runVars, stateVars, rlVars>>
    /\ UNCHANGED <<cwd, t_cwd0, t_ran_in, work, histVars>>
    /\ UNCHANGED <<crVars, hrVars>>

\* the force_exit thread of signal_handler: os._exit(130) two seconds after
\* the signal when the process is still there; no finally clause runs
ForceExit ==
    /\ shutdown_requested
    /\ run_pc # "returned"
    /\ run_pc' = "returned"
    /\ UNCHANGED <<scn, run, stage_pos, run_result, state_file, wt_dirs,
                   active_worktrees>>
    /\ UNCHANGED <<stateVars, mVars, tVars, rlVars>>
    /\ UNCHANGED <<envVars, histVars>>
    /\ UNCHANGED <<crVars, hrVars>>

\* execute_task_group sees the flag when a finished future is handed to it
\* and cancels the futures left: one that has not started never runs
TaskCancel(t) ==
    /\ run_pc = "running"
    /\ shutdown_requested
    /\ t_pc[t] = "queued"
    /\ \E u \in GroupIds(Owner(t), m_grp[Owner(t)]) :
          t_pc[u] = "done" /\ u \notin m_results[Owner(t)]
    /\ t_pc' = [t_pc EXCEPT ![t] = "cancelled"]
    /\ UNCHANGED <<t_attempt, t_admits, t_calls, t_delays, t_result>>
    /\ UNCHANGED <<runVars, stateVars, mVars, rlVars>>
    /\ UNCHANGED <<envVars, histVars>>
    /\ UNCHANGED <<crVars, hrVars>>

\* the same in execute_stage for a milestone runner that has not started
MilestoneCancel(i) ==
    /\ run_pc = "running"
    /\ shutdown_requested
    /\ m_pc[i] = "queued"
    /\ \E j \in StageMs(CurStage) : m_pc[j] = "done" /\ j \notin stage_got
    /\ m_pc' = [m_pc EXCEPT ![i] = "cancelled"]
    /\ UNCHANGED <<m_grp, m_results, m_res, tVars>>
    /\ UNCHANGED <<runVars, stateVars, rlVars>>
    /\ UNCHANGED <<envVars, histVars>>
    /\ UNCHANGED <<crVars, hrVars>>

----------------------------------------------------------------------------
\* the values of a fresh Orchestrator: __init__ loads the state file,
\* everything else starts afresh
Fresh(sc, file) ==
    LET st == LoadedState(file)
        ms == Scenarios[sc].ms
        ts == UNION {{ms[i].tasks[k].id : k \in 1..Len(ms[i].tasks)} :
                        i \in 1..Len(ms)}
    IN [state |-> <<st.current_stage, st.completed_tasks, st.failed_tasks,
                    st.skipped_tasks, st.stage_results, st.worktree_paths>>,
        m |-> <<[i \in 1..Len(ms) |-> "idle"], [i \in 1..Len(ms) |-> 0],
                [i \in 1..Len(ms) |-> {}], [i \in 1..Len(ms) |-> "none"]>>,
        t |-> <<[t \in ts |-> "idle"], [t \in ts |-> 0], [t \in ts |-> 0],
                [t \in ts |-> 0], [t \in ts |-> <<>>],
                [t \in ts |-> "none"]>>,
        dirs |-> <<[t \in ts |-> <<>>], [t \in ts |-> {}]>>]

OrchStart(sc, file) ==
    /\ scn = sc
    /\ run_pc = "loop"
    /\ stage_pos = 1
    /\ run_result = "none"
    /\ active_worktrees = {}
    /\ shutdown_requested = FALSE
    /\ stage_got = {}
    /\ cwd = <<>>
    /\ t_cwd0 = Fresh(sc, file).dirs[1]
    /\ t_ran_in = Fresh(sc, file).dirs[2]
    /\ resume_stage = Fresh(sc, file).state[1]
    /\ started = <<>>
    /\ entry_stage = Fresh(sc, file).state[1]
    /\ stage_log = NoStageLog
    /\ rv_calls = 0
    /\ current_stage = Fresh(sc, file).state[1]
    /\ completed_tasks = Fresh(sc, file).state[2]
    /\ failed_tasks = Fresh(sc, file).state[3]
    /\ skipped_tasks = Fresh(sc, file).state[4]
    /\ stage_results = Fresh(sc, file).state[5]
    /\ worktree_paths = Fresh(sc, file).state[6]
    /\ m_pc = Fresh(sc, file).m[1]
    /\ m_grp = Fresh(sc, file).m[2]
    /\ m_results = Fresh(sc, file).m[3]
    /\ m_res = Fresh(sc, file).m[4]
    /\ t_pc = Fresh(sc, file).t[1]
    /\ t_attempt = Fresh(sc, file).t[2]
    /\ t_admits = Fresh(sc, file).t[3]
    /\ t_calls = Fresh(sc, file).t[4]
    /\ t_delays = Fresh(sc, file).t[5]
    /\ t_result = Fresh(sc, file).t[6]

\* the process has ended and the orchestrator is started again on the same
\* directory
Restart ==
    /\ run_pc = "returned"
    /\ run < MaxRuns
    /\ run' = run + 1
    /\ run_pc' = "loop"
    /\ stage_pos' = 1
    /\ run_result' = "none"
    /\ active_worktrees' = {}
    /\ shutdown_requested' = FALSE
    /\ stage_got' = {}
    /\ cwd' = <<>>
    /\ t_cwd0' = Fresh(scn, state_file).dirs[1]
    /\ t_ran_in' = Fresh(scn, state_file).dirs[2]
    /\ resume_stage' = Fresh(scn, state_file).state[1]
    /\ started' = <<>>
    /\ entry_stage' = Fresh(scn, state_file).state[1]
    /\ stage_log' = NoStageLog
    /\ rv_calls' = 0
    /\ current_stage' = Fresh(scn, state_file).state[1]
    /\ completed_tasks' = Fresh(scn, state_file).state[2]
    /\ failed_tasks' = Fresh(scn, state_file).state[3]
    /\ skipped_tasks' = Fresh(scn, state_file).state[4]
    /\ stage_results' = Fresh(scn, state_file).state[5]
    /\ worktree_paths' = Fresh(scn, state_file).state[6]
    /\ m_pc' = Fresh(scn, state_file).m[1]
    /\ m_grp' = Fresh(scn, state_file).m[2]
    /\ m_results' = Fresh(scn, state_file).m[3]
    /\ m_res' = Fresh(scn, state_file).m[4]
    /\ t_pc' = Fresh(scn, state_file).t[1]
    /\ t_attempt' = Fresh(scn, state_file).t[2]
    /\ t_admits' = Fresh(scn, state_file).t[3]
    /\ t_calls' = Fresh(scn, state_file).t[4]
    /\ t_delays' = Fresh(scn, state_file).t[5]
    /\ t_result' = Fresh(scn, state_file).t[6]
    /\ UNCHANGED <<scn, state_file, wt_dirs, work, rlVars>>
    /\ UNCHANGED <<crVars, hrVars>>

----------------------------------------------------------------------------
(* Specifications *)

RLStart ==
    /\ clock = 0
    /\ request_times = <<>>
    /\ burst_count = 0
    /\ last_reset = 0
    /\ consecutive_429s = 0
    /\ adjustment_factor = Rat(1, 1)
    /\ rl_lock = 0
    /\ rl_pc = [t \in Threads |-> "idle"]
    /\ rl_now = [t \in Threads |-> 0]
    /\ rl_wait = [t \in Threads |-> 0]
    /\ rl_seen = [t \in Threads |-> NoSeen]
    /\ rl_log = <<>>
    /\ rl_resp = 0
    /\ rl_status = 0
    /\ hr_pc = [t \in Threads |-> "idle"]
    /\ hr_status = [t \in Threads |-> 0]
    /\ hr_tmp = [t \in Threads |-> 0]

\* conduct_code_review is entered: iterations_completed = 0, final_result = None
CRStart ==
    /\ cr_pc = "loop"
    /\ iteration = 0
    /\ review_result = <<>>
    /\ final_result = <<>>
    /\ iterations_completed = 0
    /\ cr_log = <<>>

\* CodeReviewManager.__init__ with an empty "code_review" section
CRDefault ==
    /\ cr_cfg = [max_iterations |-> 3, quality_threshold |-> 80,
                 auto_fix |-> TRUE]
    /\ CRStart

\* the orchestrator on a directory without a state file
Init ==
    /\ \E sc \in 1..Len(Scenarios) : OrchStart(sc, <<>>)
    /\ run = 1
    /\ state_file = <<>>
    /\ wt_dirs = {}
    /\ work = [t \in AllTaskIds |-> {}]
    /\ rl_cfg = [rpm |-> 50, burst |-> 10]
    /\ RLStart
    /\ CRDefault

Next ==
    \/ SkipStage
    \/ BeginStage
    \/ StageGate
    \/ MergeStage
    \/ \E v \in ReviewVerdicts : StageReview(v)
    \/ \E committed \in BOOLEAN : CommitStage(committed)
    \/ FinishRun
    \/ Cleanup
    \/ Restart
    \/ \E i \in MIdx : MilestoneStart(i)
    \/ \E i \in MIdx : GroupDone(i)
    \/ \E i \in MIdx, v \in ReviewVerdicts : MilestoneReview(i, v)
    \/ \E i \in MIdx, committed \in BOOLEAN : MilestoneCommit(i, committed)
    \/ \E t \in AllTaskIds, how \in {"admitted"} \cup Faults :
          TaskAttempt(t, how)
    \/ \E t \in AllTaskIds : TaskEnter(t)
    \/ \E t \in AllTaskIds, success \in BOOLEAN : TaskCall(t, success)
    \/ Signal
    \/ ForceExit
    \/ \E t \in AllTaskIds : TaskCancel(t)
    \/ \E i \in MIdx : MilestoneCancel(i)
    \/ \E i \in MIdx : MilestoneRaises(i)

Spec == Init /\ [][Next]_vars

\* a RateLimitManager used by several threads
RLInit ==
    /\ rl_cfg \in [rpm : RpmChoices, burst : BurstChoices]
    /\ RLStart
    /\ OrchStart(3, <<>>)
    /\ run = 1
    /\ state_file = <<>>
    /\ wt_dirs = {}
    /\ work = [t \in AllTaskIds |-> {}]
    /\ CRDefault

RLNext ==
    \/ \E d \in Deltas : Tick(d)
    \/ \E t \in Threads : RLCall(t)
    \/ \E t \in Threads : RLEnter(t)
    \/ \E t \in Threads : RLSleep(t)
    \/ \E t \in Threads : RLRecord(t)
    \/ \E s \in {429, 200}, ra \in RetryAfterChoices : HandleResponse(s, ra)

SpecRL == RLInit /\ [][RLNext]_vars

\* a RateLimitManager that is told one response after the other
SeqInit == RLInit

SeqNext ==
    \E s \in {429, 200}, ra \in RetryAfterChoices : HandleInSequence(s, ra)

SpecSeq == SeqInit /\ [][SeqNext]_vars

\* a RateLimitManager whose two methods are called by several threads
HRInit == RLInit

HRNext ==
    \/ \E t \in Threads : RLCall(t)
    \/ \E t \in Threads : RLEnter(t)
    \/ \E t \in Threads : RLSleep(t)
    \/ \E t \in Threads : RLRecord(t)
    \/ \E t \in Threads, s \in {429, 200} : HRCall(t, s)
    \/ \E t \in Threads : HRTest(t)
    \/ \E t \in Threads : HRLoadCount(t)
    \/ \E t \in Threads : HRStoreCount(t)
    \/ \E t \in Threads : HRLoadFactor(t)
    \/ \E t \in Threads : HRStoreFactor(t)

SpecHR == HRInit /\ [][HRNext]_vars

\* one call of conduct_code_review under every configuration
CRInit ==
    /\ cr_cfg \in [max_iterations : MaxIterationChoices,
                    quality_threshold : ThresholdChoices,
                    auto_fix : AutoFixChoices]
    /\ CRStart
    /\ rl_cfg = [rpm |-> 50, burst |-> 10]
    /\ RLStart
    /\ OrchStart(3, <<>>)
    /\ run = 1
    /\ state_file = <<>>
    /\ wt_dirs = {}
    /\ work = [t \in AllTaskIds |-> {}]

CRNext ==
    \/ \E resp \in ReviewResponses : CRReview(resp)
    \/ \E resp \in FixResponses : CRFix(resp)
    \/ CRExhausted

SpecCR == CRInit /\ [][CRNext]_vars

----------------------------------------------------------------------------
(* Properties of RateLimitManager, under SpecRL      *)

\* the admissions of the history that fall into the window (e - 60, e]
WindowCount(e) ==
    Cardinality({j \in 1..Len(rl_log) :
                    rl_log[j].at > e - Window /\ rl_log[j].at <= e})

\* C5: for every 60-second window that ends with an admission, the number of
\* requests admitted in the window is at most requests_per_minute times the
\* adjustment factor that the admission's own limit check read.
C5_WindowBound ==
    \A i \in 1..Len(rl_log) :
        WindowCount(rl_log[i].at) * rl_log[i].factor.d
            <= rl_log[i].rpm * rl_log[i].factor.n

\* C6: burst_count never exceeds burst_limit.
C6_BurstBound == burst_count <= rl_cfg.burst

\* C7: the check of the limits and the recording of the admission are one
\* critical section: a caller between its check and its record holds the
\* lock alone, and the request list and burst counter it is about to update
\* are still the ones its check read.
C7_CriticalSection ==
    \A t \in Threads :
        rl_pc[t] \in {"sleep", "record"} =>
            /\ rl_lock = t
            /\ \A u \in Threads \ {t} : rl_pc[u] \in {"idle", "acquiring"}
            /\ rl_seen[t].times = request_times
            /\ rl_seen[t].burst = burst_count

\* two concurrent callers: one has waited inside the critical section and is
\* about to record, the other is blocked on the lock, after an earlier
\* admission
C7_Witness ==
    \E t \in Threads, u \in Threads :
        /\ t # u
        /\ rl_pc[t] = "record"
        /\ rl_wait[t] > 0
        /\ rl_pc[u] = "acquiring"
        /\ Len(rl_log) >= 1

----------------------------------------------------------------------------
(* Properties of execute_single_task *)

\* a step of the thread of task t inside execute_single_task
TaskStep(t) ==
    /\ t_pc[t] \in {"queued", "attempt", "enter", "call"}
    /\ t_pc'[t] \notin {t_pc[t], "cancelled", "idle"}

\* the step with which execute_single_task returns for task t
TaskReturns(t) == TaskStep(t) /\ t_pc'[t] = "done"

\* C1: when execute_single_task is invoked for a task whose id is already in
\* completed_tasks it returns a success result, takes no rate-limiter
\* admission, makes no backend call and leaves completed_tasks and
\* failed_tasks unchanged.
C1_IdempotentResume ==
    [][\A t \in AllTaskIds :
          (TaskStep(t) /\ t_pc[t] = "queued" /\ t \in completed_tasks) =>
              /\ TaskReturns(t)
              /\ t_result'[t] = "skipped"
              /\ t_admits' = t_admits
              /\ t_calls' = t_calls
              /\ completed_tasks' = completed_tasks
              /\ failed_tasks' = failed_tasks]_vars

\* a resumed run has skipped a completed task without admission or call
C1_Witness ==
    \E t \in AllTaskIds :
        /\ run = 2
        /\ t_result[t] = "skipped"
        /\ t \in completed_tasks
        /\ t_admits[t] = 0
        /\ t_calls[t] = 0

\* C2: in every reachable state no task id is in both completed_tasks and
\* failed_tasks.
C2_Disjoint == completed_tasks \cap failed_tasks = {}

\* C3: a task gets at most max_retries + 1 backend attempts, and the delay
\* slept after failed attempt k is retry_delay * 2^k, whether the attempt
\* ended with a failure result or with an exception.
C3_RetryBackoff ==
    \A t \in AllTaskIds :
        /\ t_calls[t] <= Cfg.max_retries + 1
        /\ t_attempt[t] <= Cfg.max_retries
        /\ Len(t_delays[t]) = t_attempt[t]
        /\ \A k \in 1..Len(t_delays[t]) :
              /\ t_delays[t][k].after = k - 1
              /\ t_delays[t][k].secs = Cfg.retry_delay * Pow2(k - 1)

\* a task has used every attempt, three of them backend calls, and has slept
\* after a failure result as well as after an exception
C3_Witness ==
    \E t \in AllTaskIds :
        /\ t_pc[t] = "done"
        /\ t_result[t] = "failure"
        /\ Len(t_delays[t]) = 3
        /\ t_delays[t][3].secs = 120
        /\ t_calls[t] = 3
        /\ \E k \in 1..3 : t_delays[t][k].cause = "exception"
        /\ \E k \in 1..3 : t_delays[t][k].cause = "failure"

\* C4: when execute_single_task returns for a task that was not already
\* completed, either the result is success and the id has been added to
\* completed_tasks and not to failed_tasks, or every attempt has failed, the
\* result is failure and the id has been added to failed_tasks and not to
\* completed_tasks; no other step of the task writes to the checkpoint state.
C4_TerminalOutcome ==
    [][\A t \in AllTaskIds :
          /\ (TaskReturns(t) /\ t \notin completed_tasks) =>
                \/ /\ t_result'[t] = "success"
                   /\ completed_tasks' = completed_tasks \cup {t}
                   /\ failed_tasks' = failed_tasks
                \/ /\ t_result'[t] = "failure"
                   /\ t_attempt[t] = Cfg.max_retries
                   /\ failed_tasks' = failed_tasks \cup {t}
                   /\ completed_tasks' = completed_tasks
          /\ (TaskStep(t) /\ ~TaskReturns(t)) =>
                /\ completed_tasks' = completed_tasks
                /\ failed_tasks' = failed_tasks
          /\ TaskStep(t) =>
                UNCHANGED <<current_stage, skipped_tasks, stage_results,
                            worktree_paths, state_file>>]_vars

\* one task has returned a failure after retries and one a success, each
\* recorded once
C4_Witness ==
    \E t \in AllTaskIds, u \in AllTaskIds :
        /\ t_result[t] = "success" /\ t \in completed_tasks
        /\ t \notin failed_tasks
        /\ t_result[u] = "failure" /\ u \in failed_tasks
        /\ u \notin completed_tasks
        /\ t_attempt[u] >= 1

----------------------------------------------------------------------------
(* Properties of execute_stage and execute_milestone *)

\* C8: once the milestone runners of a stage have finished, the stage goes on
\* (to merging when worktrees are used) iff successes / milestones >= 0.8
\* over the milestone results execute_stage holds, and when it does not,
\* execute_stage returns failure.
C8_StageGate ==
    [][(run_pc = "running" /\ run_pc' \notin {"running", "returned"}) =>
          LET total      == Cardinality(StageMs(CurStage))
              successful == Cardinality({i \in StageTaken :
                                            m_res[i] = "success"})
          IN /\ run_pc' # "cleanup" <=> 5 * successful >= 4 * total
             /\ (run_pc' # "cleanup" /\ Cfg.use_worktrees) => run_pc' = "merge"
             /\ run_pc' = "cleanup" => run_result' = FALSE]_vars

\* a stage of five milestones, four of them successful, has gone on to merging
C8_Witness ==
    /\ run_pc = "merge"
    /\ Cardinality(StageMs(CurStage)) = 5
    /\ Cardinality({i \in StageMs(CurStage) : m_res[i] = "success"}) = 4

\* the completed tasks that belong to the milestone named dep
CompletedOf(dep) ==
    {t \in completed_tasks : \E j \in MIdx : Ms[j].id = dep /\ t \in TaskIdsOf(j)}

\* the step in which the runner of milestone i checks its dependencies
DependencyStep(i) ==
    m_pc[i] = "queued" /\ m_pc'[i] \notin {"queued", "cancelled", "idle"}

\* C9: a milestone that declares a dependency with zero completed tasks ends
\* as failed for unmet dependencies, and none of its tasks is submitted.
C9_DependencyGating ==
    [][\A i \in MIdx :
          (/\ DependencyStep(i)
           /\ \E k \in 1..Len(Ms[i].dependencies) :
                 CompletedOf(Ms[i].dependencies[k]) = {}) =>
              /\ m_res'[i] = "deps_not_met"
              /\ m_pc'[i] = "done"
              /\ t_pc' = t_pc]_vars

\* C10: the dependency check passes iff every declared dependency has at
\* least one completed task that belongs to that dependency itself.
C10_DependencyCheck ==
    [][\A i \in MIdx :
          DependencyStep(i) =>
              (m_res'[i] # "deps_not_met" <=>
                  \A k \in 1..Len(Ms[i].dependencies) :
                      CompletedOf(Ms[i].dependencies[k]) # {})]_vars

----------------------------------------------------------------------------
(* Properties of the stage loop *)

\* C11: a run that starts from a checkpoint with current_stage = c executes
\* only stages numbered c or more, in ascending order, and for a stage below
\* c it runs no milestone and creates no worktree.
C11_Resume ==
    /\ [](/\ \A k \in 1..Len(started) : started[k] >= resume_stage
          /\ \A k \in 1..Len(started), l \in 1..Len(started) :
                k < l => started[k] < started[l]
          /\ \A i \in MIdx : Ms[i].stage < resume_stage => m_pc[i] = "idle")
    /\ [][\A i \in MIdx :
             (Ms[i].stage < resume_stage /\ resume_stage' = resume_stage) =>
                 /\ Ms[i].id \in wt_dirs' => Ms[i].id \in wt_dirs
                 /\ Ms[i].id \in active_worktrees' =>
                       Ms[i].id \in active_worktrees]_vars

\* a run resumed at stage 2 has executed stage 2 and nothing below it
C11_Witness ==
    /\ run = 2
    /\ resume_stage = 2
    /\ started = <<2>>
    /\ \E i \in MIdx : Ms[i].stage = 1 /\ m_pc[i] = "idle"
    /\ \E i \in MIdx : Ms[i].stage = 2 /\ m_pc[i] = "done"

\* a step of the last execute_stage has failed
StageFailed ==
    "failed" \in {stage_log.gate, stage_log.merge, stage_log.review}

\* C12: when a stage fails at the success-ratio gate, the merge-ratio gate or
\* the stage review, the run halts with failure, no later stage is started
\* in that run, and current_stage, in memory and in the state file the run
\* leaves behind, keeps the value it had before the stage.
C12_FailFast ==
    StageFailed =>
        /\ run_pc \in {"cleanup", "returned"}
        /\ run_result = FALSE
        /\ started[Len(started)] = CurStage
        /\ current_stage = entry_stage
        /\ (run_pc = "returned" /\ state_file # <<>>) =>
              state_file[1].current_stage = entry_stage

\* a run has halted at a failed first stage and left the second unstarted
C12_Witness ==
    /\ StageFailed
    /\ run_pc = "returned"
    /\ stage_pos < Len(StageSeq)
    /\ started = <<StageSeq[1]>>
    /\ state_file # <<>>
    /\ state_file[1].current_stage = 0

\* C13: current_stage is set to N + 1 and persisted only after the success
\* gate, the merge of the worktrees, the stage review and the commit of the
\* integrated stage have all succeeded for stage N.
C13_AdvanceAfterCommit ==
    [][(current_stage' # current_stage /\ run' = run) =>
          /\ current_stage' = CurStage + 1
          /\ state_file' # <<>>
          /\ state_file'[1].current_stage = CurStage + 1
          /\ stage_log'.gate = "ok"
          /\ Cfg.use_worktrees => stage_log'.merge = "ok"
          /\ Cfg.review => stage_log'.review = "ok"
          /\ stage_log'.commit = "ok"]_vars

\* C14: when a resumed run executes a stage again, a task that is skipped
\* because an earlier run recorded it in completed_tasks still has its
\* changes somewhere (in the milestone's worktree, on its branch or in the
\* base branch): the branch and worktree holding them have not been deleted
\* and recreated empty.
C14_CompletedWorkKept ==
    \A t \in AllTaskIds : t_result[t] = "skipped" => work[t] # {}

\* C15: when the process stops, at any point, the state file that the next
\* start loads holds every task id that was in completed_tasks or in
\* failed_tasks in memory before the stop.
C15_CheckpointDurable ==
    [][(run_pc # "returned" /\ run_pc' = "returned") =>
          /\ completed_tasks \subseteq LoadedState(state_file').completed_tasks
          /\ failed_tasks \subseteq LoadedState(state_file').failed_tasks]_vars

\* C16: once the signal handler has set the shutdown flag, no task id is
\* added to completed_tasks in that run, whatever the task threads in flight
\* do after the signal.
C16_Cancellation ==
    [][(shutdown_requested /\ run' = run) =>
          completed_tasks' \subseteq completed_tasks]_vars

RECURSIVE SumOver(_, _)
\* the sum of the counter f over the tasks in S
SumOver(f, S) ==
    IF S = {} THEN 0
    ELSE LET t == CHOOSE t \in S : TRUE IN f[t] + SumOver(f, S \ {t})

\* C17: every call to the external agent (a task attempt, a review at
\* milestone or stage level) is preceded by its own admission by
\* wait_if_needed: in every state the calls made are at most the admissions.
C17_AdmissionPerCall ==
    SumOver(t_calls, AllTaskIds) + rv_calls <= SumOver(t_admits, AllTaskIds)

----------------------------------------------------------------------------
(* Properties of the working directory *)

\* C18: with worktrees enabled, every backend call made for a task of
\* milestone M runs in the worktree of M, never in the worktree of another
\* milestone and never in the base checkout, also when the worktree of M
\* could not be created.
C18_WorktreeIsolation ==
    Cfg.use_worktrees =>
        \A t \in AllTaskIds : t_ran_in[t] \subseteq {Ms[Owner(t)].id}

\* C19: once every task thread that entered ClaudeCodeWrapper.execute_task
\* has returned from it, the working directory of the process is the base
\* directory it had before the stage.
C19_CwdRestored ==
    (\A t \in AllTaskIds : t_pc[t] \notin {"call"}) => cwd = <<>>

----------------------------------------------------------------------------
(* Properties of milestone validation *)

\* the step in which execute_milestone validates the results of milestone i
\* in a run that no signal has interrupted
ValidationStep(i) ==
    /\ m_pc[i] = "tasks"
    /\ m_pc'[i] \notin {"tasks", "idle"}
    /\ run_pc' = run_pc
    /\ ~shutdown_requested

\* milestone i has been judged valid: it goes on to its review or commit, or
\* returns success
JudgedValid(i) ==
    m_pc'[i] \in {"review", "commit"} \/ m_res'[i] = "success"

\* C20: a milestone that attempted n >= 1 tasks is judged valid iff its
\* successful task results are at least 80% of n, where n counts the tasks
\* that were attempted; exactly 80% is valid, also when the remainder group
\* was skipped after a high-priority failure.
C20_MilestoneValidation ==
    [][\A i \in MIdx :
          (ValidationStep(i) /\ m_results'[i] # {}) =>
              LET n  == Cardinality(m_results'[i])
                  ok == Cardinality({t \in m_results'[i] :
                                        t_result[t] # "failure"})
              IN JudgedValid(i) <=> 5 * ok >= 4 * n]_vars

\* C21: a milestone with zero tasks, or for which no task was attempted,
\* is invalid: execute_milestone never returns a success result for it (so
\* it never counts as a successful milestone in the stage success rate).
C21_EmptyMilestoneInvalid ==
    \A i \in MIdx :
        (m_pc[i] = "done" /\ m_results[i] = {}) => m_res[i] # "success"

\* C22: no task of the remainder group of a milestone starts before every
\* task of its high-priority group has a final result, and when a
\* high-priority task has ended in failure no task of the remainder group is
\* started for that milestone in the run.
C22_PriorityOrder ==
    [][\A t \in AllTaskIds :
          (/\ t \notin HighIds(Owner(t))
           /\ t_pc[t] = "idle"
           /\ t_pc'[t] # "idle") =>
              \A h \in HighIds(Owner(t)) :
                  /\ t_pc[h] = "done"
                  /\ t_result[h] \in {"success", "skipped"}]_vars

\* a medium-priority task has run after the high-priority task of its
\* milestone succeeded
C22_Witness ==
    \E t \in AllTaskIds :
        /\ t \notin HighIds(Owner(t))
        /\ HighIds(Owner(t)) # {}
        /\ t_pc[t] = "done"
        /\ t_calls[t] >= 1
        /\ \A h \in HighIds(Owner(t)) : t_result[h] = "success"

----------------------------------------------------------------------------
(* Properties of the worktrees of a stage *)

\* C24: merge_stage_worktrees merges into the base branch only the branches
\* of milestones whose runner result was success; the branch of a milestone
\* that failed in the stage is never merged.
C24_MergeOnlySuccessful ==
    \A i \in stage_log.merged : m_res[i] = "success"

\* C25: merge_stage_worktrees judges the stage merged iff the successful
\* merges are at least 80% of the milestones of the stage (a milestone with
\* no worktree path or record, or whose checkout or merge fails, is not
\* merged); when the stage is not judged merged the stage fails, and neither
\* the stage review nor the stage commit is performed.
C25_MergeGate ==
    /\ [][run_pc = "merge" =>
             LET total == Cardinality(StageMs(CurStage))
                 done  == Cardinality(stage_log'.merged)
             IN /\ stage_log'.merged \subseteq
                      {i \in StageMs(CurStage) :
                          /\ Ms[i].id \in worktree_paths
                          /\ Ms[i].id \in active_worktrees}
                /\ stage_log'.merge = "ok" <=> 5 * done >= 4 * total
                /\ stage_log'.merge = "ok" <=>
                      run_pc' \in {"review", "commit"}
                /\ stage_log'.merge # "ok" =>
                      run_pc' = "cleanup" /\ run_result' = FALSE]_vars
    /\ [](stage_log.merge = "failed" =>
             /\ stage_log.review = "none"
             /\ stage_log.commit = "none"
             /\ run_pc \in {"cleanup", "returned"})

\* four of the five branches of a stage were merged, the fifth milestone
\* has no worktree, and the stage has gone on to its review
C25_Witness ==
    /\ Cardinality(StageMs(CurStage)) = 5
    /\ Cardinality(stage_log.merged) = 4
    /\ stage_log.merge = "ok"
    /\ run_pc = "review"

\* C26: the operations on the shared checkout of the base branch never
\* overlap with a milestone runner or a task thread of the stage: whenever
\* the main thread is outside the collecting loop (creating worktrees,
\* merging, reviewing and committing the stage, cleaning up), also after a
\* shutdown request, no runner and no task thread is alive; and the steps of
\* a stage come in order: merge after the gate, commit after merge and review.
C26_SerializedGit ==
    /\ run_pc \in {"loop", "merge", "review", "commit", "cleanup"} =>
          /\ \A i \in MIdx :
                m_pc[i] \notin {"queued", "tasks", "review", "commit"}
          /\ \A t \in AllTaskIds :
                t_pc[t] \notin {"queued", "attempt", "enter", "call"}
    /\ stage_log.merge # "none" => stage_log.gate = "ok"
    /\ stage_log.review # "none" =>
          /\ stage_log.gate = "ok"
          /\ Cfg.use_worktrees => stage_log.merge = "ok"
    /\ stage_log.commit # "none" =>
          /\ stage_log.gate = "ok"
          /\ Cfg.use_worktrees => stage_log.merge = "ok"
          /\ Cfg.review => stage_log.review = "ok"

\* the branches of a stage are being merged after its runners, two of which
\* had run their tasks at the same time, have all returned
C26_Witness ==
    /\ run_pc = "merge"
    /\ Cfg.max_workers = 2
    /\ \A i \in StageMs(CurStage) : m_pc[i] = "done"
    /\ \E t \in AllTaskIds : t_calls[t] >= 1

\* C27: a failure to create the worktree of one milestone, or to merge the
\* branch of one, does not stop the loop: creation is attempted for every
\* milestone of the stage and every runner of the stage is started, and
\* merging is attempted for every milestone that has a worktree.
C27_FailureIsolated ==
    [][/\ (run_pc = "loop" /\ run_pc' = "running") =>
             /\ Cfg.use_worktrees =>
                   stage_log'.prepared = StageMs(CurStage)
             /\ \A i \in StageMs(CurStage) : m_pc'[i] = "queued"
       /\ run_pc = "merge" =>
             stage_log'.merge_tried =
                 {i \in StageMs(CurStage) :
                     /\ Ms[i].id \in worktree_paths
                     /\ Ms[i].id \in active_worktrees}]_vars

\* the worktree of 1a could not be created, those of its four siblings were
\* created and merged afterwards, and the five runners have run
C27_Witness ==
    /\ Ms[1].id \notin active_worktrees
    /\ stage_log.prepared = StageMs(CurStage)
    /\ stage_log.merged = StageMs(CurStage) \ {1}
    /\ Cardinality(stage_log.merged) = 4
    /\ \A i \in StageMs(CurStage) : m_pc[i] = "done"

\* C28: once a milestone has its result and the merge step of its stage is
\* over, no worktree directory of it is left: none exists while a later
\* stage is executed, and none exists when a run that no signal interrupted
\* and in which no git command failed has ended.
C28_WorktreesRemoved ==
    /\ run_pc = "running" =>
          \A i \in MIdx : Ms[i].stage < CurStage => Ms[i].id \notin wt_dirs
    /\ (run_pc = "returned" /\ ~shutdown_requested /\ Flaky = {}) =>
          wt_dirs = {}

----------------------------------------------------------------------------
(* Properties of the state file and of the end of the run *)

\* C29: save_state followed by load_state in a fresh process gives the
\* saved state back: the same current_stage, the same sets of completed,
\* failed and skipped tasks, the same worktree paths, and stage results
\* under the same keys.
C29_RoundTrip ==
    LET st == LoadedState(<<SavedState>>)
    IN /\ st.current_stage = current_stage
       /\ st.completed_tasks = completed_tasks
       /\ st.failed_tasks = failed_tasks
       /\ st.skipped_tasks = skipped_tasks
       /\ st.worktree_paths = worktree_paths
       /\ {e.key : e \in st.stage_results} = {e.key : e \in stage_results}

\* C30: an interrupted run is never reported as a success: when shutdown
\* was requested before every stage was completed, execute_milestones does
\* not return success (and so the exit code is not 0).
C30_InterruptedNotSuccess ==
    [][(/\ run_pc # "cleanup"
        /\ run_pc' = "cleanup"
        /\ shutdown_requested
        /\ stage_pos <= Len(StageSeq)) => run_result' = FALSE]_vars

----------------------------------------------------------------------------
(* Properties of the review loop *)

\* the number of entries of the log that are in kinds
Calls(kinds) == Cardinality({k \in 1..Len(cr_log) : cr_log[k] \in kinds})

\* the review of the current pass was answered by the Review backend
Reviewed ==
    /\ review_result # <<>>
    /\ review_result[1].quality_gates_failed \subseteq {"gate"}

\* C31: conduct_code_review calls the Review backend at most max_iterations
\* times and the corrective backend at most max_iterations times, returns
\* a result, reports exhaustion of max_iterations as a failed result, and
\* (with auto-fix enabled, the review answered and iterations left) ends
\* only on a clean review result or on a failed auto-fix.
C31_ReviewLoopBounded ==
    /\ Calls({"review"}) <= cr_cfg.max_iterations
    /\ Calls({"fix", "fix_failed"}) <= cr_cfg.max_iterations
    /\ cr_pc = "returned" => final_result # <<>>
    /\ (cr_pc = "returned" /\ iterations_completed = cr_cfg.max_iterations
          /\ final_result[1].quality_gates_failed
                = {"Maximum iterations exceeded"}) =>
          ~final_result[1].success
    /\ (cr_pc = "returned" /\ cr_cfg.auto_fix /\ Reviewed
          /\ iterations_completed < cr_cfg.max_iterations) =>
          \/ final_result[1].success /\ ~HasQualityIssues(final_result[1])
          \/ cr_log[Len(cr_log)] = "fix_failed"

\* a pass of the loop has made its review call
ReviewStep == cr_pc = "loop" /\ Len(cr_log') = Len(cr_log) + 1

\* C32: when a review iteration answered by the backend reports outstanding
\* issues (a todo, a failed quality gate or a low score), auto-fix is
\* enabled and iterations remain, the corrective call is made next: the
\* loop does not end on that iteration without attempting the fix.
C32_FixBeforeNextReview ==
    [][(/\ ReviewStep
        /\ Reviewed'
        /\ HasQualityIssues(review_result'[1])
        /\ cr_cfg.auto_fix
        /\ iterations_completed' < cr_cfg.max_iterations) =>
            cr_pc' = "fix"]_vars

\* C40: every corrective call that succeeds is followed by a further
\* review iteration before conduct_code_review returns: the loop never
\* returns, and never reports 'Maximum iterations exceeded', with a
\* successful auto-fix as its last backend call.
C40_FixIsReviewed ==
    (cr_pc = "returned" /\ cr_log # <<>>) => cr_log[Len(cr_log)] # "fix"

----------------------------------------------------------------------------
(* Properties of the adjustment of the rate limit *)

\* a call of handle_rate_limit_response with this status has returned
Responded(status) == rl_resp' = rl_resp + 1 /\ rl_status' = status

\* C33: under any sequence of handle_rate_limit_response calls the
\* adjustment factor stays within [0.1, 1.0] and the consecutive-limit
\* counter is never negative; each 429 response multiplies the factor by
\* 0.8, with a floor of 0.1, and adds one to the counter.
C33_FactorRange ==
    /\ [](/\ ~RatLess(adjustment_factor, Rat(1, 10))
          /\ ~RatLess(Rat(1, 1), adjustment_factor)
          /\ consecutive_429s >= 0)
    /\ [][Responded(429) =>
            /\ consecutive_429s' = consecutive_429s + 1
            /\ adjustment_factor'
                  = (IF 8 * adjustment_factor.n >= adjustment_factor.d
                     THEN Rat(4 * adjustment_factor.n, 5 * adjustment_factor.d)
                     ELSE Rat(1, 10))]_vars

\* eleven 429 responses in a row: the floor has been applied
C33_Witness ==
    /\ adjustment_factor = Rat(1, 10)
    /\ consecutive_429s >= 11
    /\ rl_status = 429

\* C34: the budget recovers: every success response received while the
\* factor is below 1.0 multiplies it by 1.1, capped at 1.0, so that a long
\* enough run of success responses brings the factor back to 1.0.
C34_BudgetRecovery ==
    [][(Responded(200) /\ RatLess(adjustment_factor, Rat(1, 1))) =>
          adjustment_factor'
             = (IF 11 * adjustment_factor.n >= 10 * adjustment_factor.d
                THEN Rat(1, 1)
                ELSE Rat(11 * adjustment_factor.n,
                         10 * adjustment_factor.d))]_vars

\* a caller of wait_if_needed reads the factor for its limit check
ReadsFactor(t) ==
    rl_pc[t] = "acquiring" /\ rl_pc'[t] \in {"sleep", "record"}

\* C35: the state of the RateLimitManager is accessed under its one
\* mutex: no update of the consecutive-limit counter or of the adjustment
\* factor is lost (what handle_rate_limit_response stores is computed
\* from the value the attribute still has), and wait_if_needed never
\* computes its effective limit while another thread has stored the
\* counter and not yet the factor.
C35_StateUnderMutex ==
    /\ [](\A t \in Threads :
             /\ hr_pc[t] = "count_store" => hr_tmp[t] = consecutive_429s
             /\ hr_pc[t] = "factor_store" => hr_tmp[t] = adjustment_factor)
    /\ [][\A t \in Threads :
             ReadsFactor(t) =>
                \A u \in Threads \ {t} :
                   hr_pc[u] \notin {"factor_load", "factor_store"}]_vars

\* C36: save_state never leaves a partially written checkpoint: whenever
\* a checkpoint on disk is replaced, also when the process stops during
\* the save, the new file is a complete checkpoint, so that a later load
\* does not fall back to a state without checkpoint.
C36_AtomicSave ==
    [][(state_file # <<>> /\ state_file' # state_file) =>
          /\ state_file' # <<>>
          /\ state_file'[1].complete
          /\ LoadedState(state_file').current_stage
                >= LoadedState(state_file).current_stage]_vars

----------------------------------------------------------------------------
(* Properties of runs that resume or race *)

\* a pool thread is free to run execute_milestone for milestone i
ReadyToStart(i) ==
    /\ run_pc = "running"
    /\ m_pc[i] = "queued"
    /\ Cardinality(MRunning) < Cfg.max_workers
    /\ \A j \in MIdx : j < i => m_pc[j] # "queued"

\* C37: the verdict of a milestone's dependency check does not depend on
\* the thread schedule: from the moment its runner can run the check until
\* it does, no step of another thread changes what the check returns.
C37_DependencyVerdictStable ==
    [][\A i \in MIdx :
          (ReadyToStart(i) /\ m_pc'[i] = "queued" /\ run' = run) =>
             (ValidateDependencies(Ms[i].dependencies, completed_tasks')
                <=> ValidateDependencies(Ms[i].dependencies,
                                         completed_tasks))]_vars

\* the run was started on the checkpoint of a run that completed every stage
RerunAfterSuccess ==
    /\ run > 1
    /\ \A i \in MIdx : Ms[i].stage < resume_stage

\* C38: a run started with the checkpoint left by a fully successful run
\* is a no-op: it executes no stage and no milestone, makes no Execution-
\* or Review-backend call, creates no worktree, leaves current_stage,
\* completed_tasks and failed_tasks as loaded, and returns success.
C38_RerunIsNoOp ==
    /\ [](RerunAfterSuccess =>
            /\ started = <<>>
            /\ \A i \in MIdx : m_pc[i] = "idle"
            /\ \A t \in AllTaskIds : t_calls[t] = 0 /\ t_admits[t] = 0
            /\ rv_calls = 0
            /\ active_worktrees = {}
            /\ current_stage = resume_stage
            /\ (run_pc \in {"cleanup", "returned"} /\ ~shutdown_requested) =>
                  run_result = TRUE)
    /\ [][(RerunAfterSuccess /\ run' = run) =>
            /\ wt_dirs' \subseteq wt_dirs
            /\ completed_tasks' = completed_tasks
            /\ failed_tasks' = failed_tasks]_vars

\* the second run on the six milestone files of two stages has skipped
\* both stages and returned
C38_Witness ==
    /\ RerunAfterSuccess
    /\ scn = 1
    /\ run_pc = "returned"
    /\ stage_pos = Len(StageSeq) + 1
    /\ run_result = TRUE
    /\ completed_tasks # {}

----------------------------------------------------------------------------
(* Properties of the calls of wait_if_needed *)

\* C39: wait_if_needed always admits its caller: a call never raises, it
\* ends only by returning with its admission recorded.
C39_CallerAdmitted ==
    [][\A t \in Threads :
          (rl_pc[t] # "idle" /\ rl_pc'[t] = "idle") =>
             /\ Len(rl_log') = Len(rl_log) + 1
             /\ Len(request_times') = Len(request_times) + 1]_vars

====
